---- MODULE Spec2Model ----
(***************************************************************************)
(* A model of the force-field definition core:                             *)
(*   force_field/core/atom_type.py, potential.py, interaction_type.py,     *)
(*   force_field.py, force_field/constants.py and force_field/potentials.  *)
(*                                                                         *)
(* Python values are modelled as follows.                                  *)
(*   - a number is an exact rational <<n, d>> with d > 0, in lowest terms; *)
(*   - an optional value is None (the empty tuple) or Some(v) == <<v>>;    *)
(*   - a dict is a function from a finite set of string keys;              *)
(*   - an AtomType object is a record, and a reference to it is            *)
(*     <<"ff", i>> (the i-th object of ForceField.atom_types) or           *)
(*     <<"ext", j>> (the j-th object that this ForceField did not create); *)
(*   - an InteractionType object is a record; a back-reference to it is    *)
(*     its index in ForceField.interaction_types;                          *)
(*   - the outcome of a call is [raised |-> error or NoError, ...].        *)
(***************************************************************************)
EXTENDS Integers, Sequences, FiniteSets, TLC

\* ---------------------------------------------------------------- bounds
MaxObjects == 3   \* AtomType and InteractionType objects created in a run of Spec
MaxForeign == 1   \* AtomType objects that the ForceField did not create
MaxArity == 2     \* length of the atom_types argument
MaxX == 2         \* largest separation x that F and U are called with
MaxCallers == 2   \* threads that evaluate a built ForceField at the same time
MaxRuleArity == 3 \* length of the atom_types argument where the rules are explored
MaxClasses == 2   \* classes that the caller creates with the metaclass PotentialMeta
MaxDicts == 1     \* dict objects that the caller holds

\* ------------------------------------------------------- optional values
None == << >>
Some(v) == << v >>
IsNone(o) == Len(o) = 0
Get(o) == o[1]

\* ------------------------------------------------------ exact arithmetic
Abs(n) == IF n < 0 THEN -n ELSE n

RECURSIVE GCD(_, _)
GCD(a, b) == IF b = 0 THEN a ELSE GCD(b, a % b)

Rat(n, d) ==
    LET g == GCD(Abs(n), Abs(d))
        s == IF d < 0 THEN -1 ELSE 1
    IN  << (s * n) \div g, (s * d) \div g >>

Int2Rat(n) == << n, 1 >>
Zero == Int2Rat(0)
IsZero(r) == r[1] = 0

\* a * b, cancelling common factors before multiplying
RMul(a, b) ==
    LET g1 == GCD(Abs(a[1]), b[2])
        g2 == GCD(Abs(b[1]), a[2])
    IN  IF a[1] = 0 \/ b[1] = 0 THEN Zero
        ELSE << (a[1] \div g1) * (b[1] \div g2), (a[2] \div g2) * (b[2] \div g1) >>

RInv(a) == Rat(a[2], a[1])
RDiv(a, b) == RMul(a, RInv(b))
RNeg(a) == << -a[1], a[2] >>

\* a + b over the least common denominator
RAdd(a, b) ==
    LET g == GCD(a[2], b[2])
    IN  Rat(a[1] * (b[2] \div g) + b[1] * (a[2] \div g), (a[2] \div g) * b[2])

RSub(a, b) == RAdd(a, RNeg(b))
RLess(a, b) == a[1] * b[2] < b[1] * a[2]

RECURSIVE RPow(_, _)
RPow(a, k) == IF k = 0 THEN Int2Rat(1) ELSE RMul(a, RPow(a, k - 1))

\* the rational square root of a rational whose numerator and denominator
\* are perfect squares (the only arguments the model supplies)
\* the largest r in lo..hi with r * r <= n, by bisection
RECURSIVE FloorSqrt(_, _, _)
FloorSqrt(n, lo, hi) ==
    IF lo >= hi THEN lo
    ELSE LET mid == (lo + hi + 1) \div 2
         IN  IF mid * mid <= n THEN FloorSqrt(n, mid, hi) ELSE FloorSqrt(n, lo, mid - 1)
\* (no root is beyond 46340, the largest integer whose square TLC computes)
ISqrt(n) == CHOOSE r \in {FloorSqrt(n, 0, IF n < 46340 THEN n ELSE 46340)} : r * r = n
\* a ** 0.5: the non-negative root, or for a negative a (Python's float power
\* gives a complex number) that root times the imaginary unit, <<n, d, "j">>
RSqrt(a) ==
    IF a[1] < 0 THEN << ISqrt(-a[1]), ISqrt(a[2]), "j" >>
    ELSE << ISqrt(a[1]), ISqrt(a[2]) >>

\* ------------------------------------------------------ call outcomes
\* what a call did: it returned (raised = "NoError") or it raised the
\* exception `raised`; cause and about render the message (its fixed words
\* and the name interpolated in them), detail the name that the text of a
\* wrapped exception carries where the message ends with it ({e}), inner the
\* exception that the raised one wraps
NoError == "NoError"
Success == [raised |-> NoError, cause |-> "", about |-> "", inner |-> "", detail |-> ""]
Err(type, cause, about, inner) ==
    [raised |-> type, cause |-> cause, about |-> about, inner |-> inner, detail |-> ""]
\* Wrap, had the message left the potential's name out
Wrap_without_name(cause, about, e) ==
    [Err("ValueError", cause, "", e.raised) EXCEPT !.detail = e.inner]
\* an exception e wrapped in a ValueError whose message ends with str(e)
Wrap(cause, about, e) ==
    [Err("ValueError", cause, about, e.raised) EXCEPT !.detail = e.inner]
Ok(out) == out.raised = NoError

\* the outcome of a numeric evaluation
Returned(v) == [raised |-> NoError, value |-> v]
Raises(e) == [raised |-> e, value |-> Zero]

\* ------------------------------------------------------------ constants.py
Constants == [ecf |-> Rat(138935458, 1000000), epsilon_r |-> Int2Rat(1)]

\* --------------------------------------------------------------- potentials
\* A potential is passed as a class; the model keeps its three class
\* attributes and dispatches F, U and calculate_parameters on its name.
Harmonic ==
    [name |-> "harmonic", constant_names |-> {}, parameter_names |-> {"k", "eq"}]
Coulombic ==
    [name |-> "coulombic", constant_names |-> {"ecf", "epsilon_r"},
     parameter_names |-> {"charge_product"}]
LennardJones ==
    [name |-> "lennard_jones", constant_names |-> {},
     parameter_names |-> {"epsilon", "sigma"}]
\* A Potential subclass of the caller's own (the base class is made to be
\* subclassed): U = kT * (a * x + b), F = -kT * a, whose combination rule
\* yields a alone, and whose constant kT the Constants table does not hold.
Linear ==
    [name |-> "linear", constant_names |-> {"kT"}, parameter_names |-> {"a", "b"}]

\* Harmonic_F, had the displacement been x + eq
Harmonic_F_plus_eq(x, k, eq) == Returned(RMul(RNeg(k), RAdd(x, eq)))
Harmonic_F(x, k, eq) == Returned(RMul(RNeg(k), RSub(x, eq)))
Harmonic_U(x, k, eq) == Returned(RMul(RMul(Rat(1, 2), k), RPow(RSub(x, eq), 2)))

Coulombic_F(x, charge_product, ecf, epsilon_r) ==
    LET den == RMul(epsilon_r, RPow(x, 2))
    IN  IF IsZero(den) THEN Raises("ZeroDivisionError")
        ELSE Returned(RDiv(RMul(ecf, charge_product), den))
\* Coulombic_U, had the energy been that of the opposite charge product
Coulombic_U_attractive_for_like(x, charge_product, ecf, epsilon_r) ==
    LET den == RMul(epsilon_r, x)
    IN  IF IsZero(den) THEN Raises("ZeroDivisionError")
        ELSE Returned(RNeg(RDiv(RMul(ecf, charge_product), den)))

Coulombic_U(x, charge_product, ecf, epsilon_r) ==
    LET den == RMul(epsilon_r, x)
    IN  IF IsZero(den) THEN Raises("ZeroDivisionError")
        ELSE Returned(RDiv(RMul(ecf, charge_product), den))

LennardJones_F(x, epsilon, sigma) ==
    IF IsZero(x) THEN Raises("ZeroDivisionError")
    ELSE Returned(RMul(RMul(Int2Rat(48), epsilon),
                       RSub(RDiv(RPow(sigma, 12), RPow(x, 13)),
                            RMul(Rat(1, 2), RDiv(RPow(sigma, 6), RPow(x, 7))))))
LennardJones_U(x, epsilon, sigma) ==
    IF IsZero(x) THEN Raises("ZeroDivisionError")
    ELSE Returned(RMul(RMul(Int2Rat(4), epsilon),
                       RSub(RPow(RDiv(sigma, x), 12), RPow(RDiv(sigma, x), 6))))

Linear_F(x, a, b, kT) == Returned(RNeg(RMul(kT, a)))
Linear_U(x, a, b, kT) == Returned(RMul(kT, RAdd(RMul(a, x), b)))

\* potential.F(x, **parameters, **constants)
Potential_F(potential, x, parameters, constants) ==
    CASE potential.name = "harmonic" -> Harmonic_F(x, parameters.k, parameters.eq)
      [] potential.name = "coulombic" ->
            Coulombic_F(x, parameters.charge_product, constants.ecf, constants.epsilon_r)
      [] potential.name = "lennard_jones" ->
            LennardJones_F(x, parameters.epsilon, parameters.sigma)
      [] OTHER -> Linear_F(x, parameters.a, parameters.b, constants.kT)

\* potential.U(x, **parameters, **constants)
Potential_U(potential, x, parameters, constants) ==
    CASE potential.name = "harmonic" -> Harmonic_U(x, parameters.k, parameters.eq)
      [] potential.name = "coulombic" ->
            Coulombic_U(x, parameters.charge_product, constants.ecf, constants.epsilon_r)
      [] potential.name = "lennard_jones" ->
            LennardJones_U(x, parameters.epsilon, parameters.sigma)
      [] OTHER -> Linear_U(x, parameters.a, parameters.b, constants.kT)

\* ------------------------------------------------------------ atom_type.py
\* AtomType(name, symbol, mass, **kwargs): the keyword arguments become
\* attributes (props), interaction_types starts as None.  mass is stored and
\* never read, and is left out.
AtomType(name, symbol, props) ==
    [name |-> name, symbol |-> symbol, props |-> props, interaction_types |-> None]

\* the result of a combination rule: a dict, or the exception it raised
RuleReturned(d) == [raised |-> NoError, inner |-> "", value |-> d]
RuleRaises(e, what) == [raised |-> e, inner |-> what, value |-> << >>]

\* the first attribute among names that some atom_types[i] (i in order,
\* 0-based) does not have; reading it is what raises
HasAttr(atom, attr) == attr \in DOMAIN atom.props

\* Potential.calculate_parameters, had the base class returned defaults
Potential_calculate_parameters_defaults(atoms) ==
    RuleReturned([k |-> Int2Rat(1), eq |-> Int2Rat(0)])

Potential_calculate_parameters(atoms) == RuleRaises("NotImplementedError", "")

\* Coulombic_calculate_parameters, had it multiplied the charges of all atoms
RECURSIVE charge_product_of_all(_)
charge_product_of_all(atoms) ==
    IF atoms = << >> THEN Int2Rat(1)
    ELSE RMul(Head(atoms).props.charge, charge_product_of_all(Tail(atoms)))
Coulombic_calculate_parameters_all_atoms(atoms) ==
    IF Len(atoms) < 1 THEN RuleRaises("IndexError", "")
    ELSE IF ~HasAttr(atoms[1], "charge") THEN RuleRaises("AttributeError", "charge")
    ELSE IF Len(atoms) < 2 THEN RuleRaises("IndexError", "")
    ELSE IF ~HasAttr(atoms[2], "charge") THEN RuleRaises("AttributeError", "charge")
    ELSE RuleReturned([charge_product |-> charge_product_of_all(atoms)])

Coulombic_calculate_parameters(atoms) ==
    IF Len(atoms) < 1 THEN RuleRaises("IndexError", "")
    ELSE IF ~HasAttr(atoms[1], "charge") THEN RuleRaises("AttributeError", "charge")
    ELSE IF Len(atoms) < 2 THEN RuleRaises("IndexError", "")
    ELSE IF ~HasAttr(atoms[2], "charge") THEN RuleRaises("AttributeError", "charge")
    ELSE RuleReturned([charge_product |-> RMul(atoms[1].props.charge, atoms[2].props.charge)])

\* LennardJones_calculate_parameters, had the sum of the sigmas lost its
\* parentheses: sigma0 + sigma1 / 2
LennardJones_calculate_parameters_without_parentheses(atoms) ==
    IF Len(atoms) < 1 THEN RuleRaises("IndexError", "")
    ELSE IF ~HasAttr(atoms[1], "epsilon") THEN RuleRaises("AttributeError", "epsilon")
    ELSE IF Len(atoms) < 2 THEN RuleRaises("IndexError", "")
    ELSE IF ~HasAttr(atoms[2], "epsilon") THEN RuleRaises("AttributeError", "epsilon")
    ELSE IF ~HasAttr(atoms[1], "sigma") THEN RuleRaises("AttributeError", "sigma")
    ELSE IF ~HasAttr(atoms[2], "sigma") THEN RuleRaises("AttributeError", "sigma")
    ELSE RuleReturned(
            [epsilon |-> RSqrt(RMul(atoms[1].props.epsilon, atoms[2].props.epsilon)),
             sigma |-> RAdd(atoms[1].props.sigma, RDiv(atoms[2].props.sigma, Int2Rat(2)))])

LennardJones_calculate_parameters(atoms) ==
    IF Len(atoms) < 1 THEN RuleRaises("IndexError", "")
    ELSE IF ~HasAttr(atoms[1], "epsilon") THEN RuleRaises("AttributeError", "epsilon")
    ELSE IF Len(atoms) < 2 THEN RuleRaises("IndexError", "")
    ELSE IF ~HasAttr(atoms[2], "epsilon") THEN RuleRaises("AttributeError", "epsilon")
    ELSE IF ~HasAttr(atoms[1], "sigma") THEN RuleRaises("AttributeError", "sigma")
    ELSE IF ~HasAttr(atoms[2], "sigma") THEN RuleRaises("AttributeError", "sigma")
    ELSE RuleReturned(
            [epsilon |-> RSqrt(RMul(atoms[1].props.epsilon, atoms[2].props.epsilon)),
             sigma |-> RDiv(RAdd(atoms[1].props.sigma, atoms[2].props.sigma), Int2Rat(2))])

Linear_calculate_parameters(atoms) == RuleReturned([a |-> Int2Rat(1)])

calculate_parameters(potential, atoms) ==
    CASE potential.name = "harmonic" -> Potential_calculate_parameters(atoms)
      [] potential.name = "coulombic" -> Coulombic_calculate_parameters(atoms)
      [] potential.name = "lennard_jones" -> LennardJones_calculate_parameters(atoms)
      [] OTHER -> Linear_calculate_parameters(atoms)

\* ------------------------------------------------------------- potential.py
\* A class is [name, bases, namespace]: its __name__, the classes it was
\* declared with, in order, and the names that its own body binds.  A base is
\* << "Potential", 0 >> (the base class of potential.py), << "plain", 0 >> (a
\* class of the caller's that has nothing to do with Potential) or
\* << "class", i >> (the i-th class created through PotentialMeta).
PotentialClass == << "Potential", 0 >>
PlainClass == << "plain", 0 >>
Required == {"name", "constant_names", "parameter_names", "F", "U"}

\* base.__name__, given the classes created so far
class_name(base, created) ==
    CASE base[1] = "Potential" -> "Potential"
      [] base[1] = "plain" -> "Mixin"
      [] OTHER -> created[base[2]].name

\* PotentialMeta.__new__(mcs, name, bases, namespace): the class is created
\* (line 10), then refused if its first base is called 'Potential' and its
\* body lacks a required name.  The loop of line 15 rebinds name, so that the
\* message names the class as "U".
PotentialMeta_new(cname, bases, namespace, created) ==
    LET missing == Required \ namespace
    IN  IF bases # << >> /\ class_name(bases[1], created) = "Potential" /\ missing # {}
        THEN Err("TypeError", "is_required", "U", "")
        ELSE Success

\* ---------------------------------------------------------- decomposition.py
DecompositionType ==
    [pairwise |-> "pairwise", bond |-> "bond", angle |-> "angle", dihedral |-> "dihedral"]

\* ------------------------------------------------------ interaction_type.py
\* resolved_parameters, had the explicit dict been copied whole
resolved_parameters_all_keys(potential, explicit, rule_value) ==
    [p \in potential.parameter_names \cup DOMAIN explicit |->
        IF p \in DOMAIN explicit THEN explicit[p] ELSE rule_value[p]]

\* resolved_parameters, had the combination rule been asked first
resolved_parameters_rule_first(potential, explicit, rule_value) ==
    [p \in potential.parameter_names |->
        IF p \in DOMAIN rule_value THEN rule_value[p] ELSE explicit[p]]

\* the loop of lines 55-64 where it does not raise: self.parameters
resolved_parameters(potential, explicit, rule_value) ==
    [p \in potential.parameter_names |->
        IF p \in DOMAIN explicit THEN explicit[p] ELSE rule_value[p]]

\* resolved_constants, had the Constants table been asked first
resolved_constants_table_first(potential, explicit) ==
    [c \in potential.constant_names |->
        IF c \in DOMAIN Constants THEN Constants[c] ELSE explicit[c]]

\* the loop of lines 71-80 where it does not raise: self.constants
resolved_constants(potential, explicit) ==
    [c \in potential.constant_names |->
        IF c \in DOMAIN explicit THEN explicit[c] ELSE Constants[c]]

\* to_calculate, had the combination rule been asked for every parameter
to_calculate_every_parameter(potential, explicit) == potential.parameter_names

\* the parameter names that pass the test of line 56 and reach the call of
\* the combination rule in line 60
to_calculate(potential, explicit) ==
    {p \in potential.parameter_names : p \notin DOMAIN explicit}

\* InteractionType.__init__.  atom_types holds the references the object keeps,
\* atoms the objects they refer to.  category_name and bonded are stored and
\* never read, and are left out.  The outcome is the exception raised, or the
\* constructed object.
InteractionType(name, potential, decomposition, atom_types, atoms, parameters, constants, cutoff) ==
    LET explicit_parameters == IF IsNone(parameters) THEN << >> ELSE Get(parameters)
        explicit_constants == IF IsNone(constants) THEN << >> ELSE Get(constants)
        asked == to_calculate(potential, explicit_parameters)
        rule == calculate_parameters(potential, atoms)
        \* the constant names that reach the try block of the loop
        to_look_up == {c \in potential.constant_names : c \notin DOMAIN explicit_constants}
        undefined == {c \in to_look_up : c \notin DOMAIN Constants}
        out ==
            IF asked # {} /\ rule.raised = "NotImplementedError"
                THEN Err("ValueError", "requires_explicit_parameters", potential.name,
                         "NotImplementedError")
            ELSE IF asked # {} /\ rule.raised # NoError
                THEN Wrap("error_calculating_parameters", potential.name, rule)
            ELSE IF \E p \in asked : p \notin DOMAIN rule.value
                THEN Wrap("error_calculating_parameters", potential.name,
                          RuleRaises("KeyError",
                                     CHOOSE p \in asked : p \notin DOMAIN rule.value))
            ELSE IF undefined # {}
                THEN Err("ValueError", "constant_not_defined",
                         CHOOSE c \in undefined : TRUE, "AttributeError")
            ELSE Success
    IN  [out |-> out,
         obj |-> IF ~Ok(out) THEN << >> ELSE
            [name |-> name,
             potential |-> potential,
             decomposition |-> decomposition,
             atom_types |-> atom_types,
             parameters |-> resolved_parameters(potential, explicit_parameters, rule.value),
             constants |-> resolved_constants(potential, explicit_constants),
             cutoff |-> cutoff]]

\* InteractionType.F_base, U_base, F, U of the object it
F_base(it, x) == Potential_F(it.potential, x, it.parameters, it.constants)

U_base(it, x) == Potential_U(it.potential, x, it.parameters, it.constants)

\* F, had the comparison with the cutoff been x >= cutoff
F_zero_at_cutoff(it, x) ==
    IF ~IsNone(it.cutoff) /\ ~RLess(x, Get(it.cutoff)) THEN Returned(Zero)
    ELSE F_base(it, x)

F(it, x) ==
    IF ~IsNone(it.cutoff) /\ RLess(Get(it.cutoff), x) THEN Returned(Zero)
    ELSE F_base(it, x)

\* U, had the energy at the cutoff not been subtracted
U_unshifted(it, x) ==
    IF ~IsNone(it.cutoff) /\ RLess(Get(it.cutoff), x) THEN Returned(Zero)
    ELSE U_base(it, x)

U(it, x) ==
    IF ~IsNone(it.cutoff)
    THEN IF RLess(Get(it.cutoff), x) THEN Returned(Zero)
         ELSE LET u == U_base(it, x)
                  uc == U_base(it, Get(it.cutoff))
              IN  IF ~Ok(u) THEN u
                  ELSE IF ~Ok(uc) THEN uc
                  ELSE Returned(RSub(u.value, uc.value))
    ELSE U_base(it, x)

\* ------------------------------------------------------------ force_field.py
VARIABLES
    atom_types,                    \* ForceField.atom_types: the AtomType objects, in order
    atom_type_identifiers,         \* ForceField.atom_type_identifiers
    interaction_types,             \* ForceField.interaction_types: the objects, in order
    interaction_type_identifiers,  \* ForceField.interaction_type_identifiers
    self_name,                     \* ForceField.name
    foreign,                       \* the AtomType objects this ForceField did not create
    dicts,                         \* the dict objects that the caller holds
    classes,                       \* the classes created with the metaclass PotentialMeta
    ret                            \* the caller: idle, or holding a call and its outcome

vars == << atom_types, atom_type_identifiers, interaction_types,
           interaction_type_identifiers, self_name, foreign, dicts, classes, ret >>

\* the ForceField's own fields
registry == << atom_types, atom_type_identifiers, interaction_types,
               interaction_type_identifiers, self_name >>

\* the objects that the ForceField did not create
outside == << foreign, dicts, classes >>

Idle == [op |-> "idle"]

\* an element of the atom_types argument: an identifier <<"id", s>>, or an
\* AtomType object, <<"ff", i>> or <<"ext", j>>; <<"none", 0>> is Python's None
Id(s) == << "id", s >>
NoneRef == << "none", 0 >>
NoneObject == [name |-> "", symbol |-> "", props |-> << >>, interaction_types |-> None]
isinstance_AtomType(e) == e[1] \in {"ff", "ext"}
Deref(ref) ==
    CASE ref[1] = "ff" -> atom_types[ref[2]]
      [] ref[1] = "ext" -> foreign[ref[2]]
      [] OTHER -> NoneObject

Min(S) == CHOOSE m \in S : \A n \in S : m <= n

\* ForceField.__init__
Init ==
    /\ atom_types = << >>
    /\ atom_type_identifiers = {}
    /\ interaction_types = << >>
    /\ interaction_type_identifiers = {}
    /\ self_name = None
    /\ foreign = << >>
    /\ dicts = << >>
    /\ classes = << >>
    /\ ret = Idle

\* define_atom_type_outcome, had the assertion on the symbol been left out
define_atom_type_outcome_without_symbol_check(name, symbol) ==
    IF name = symbol
        THEN Err("AssertionError", "name_and_symbol_the_same", name, "")
    ELSE IF name \in atom_type_identifiers
        THEN Err("AssertionError", "name_already_defined", name, "")
    ELSE Success

\* define_atom_type_outcome, had the symbol been compared with the names alone
define_atom_type_outcome_symbol_among_names(name, symbol) ==
    IF name = symbol
        THEN Err("AssertionError", "name_and_symbol_the_same", name, "")
    ELSE IF name \in atom_type_identifiers
        THEN Err("AssertionError", "name_already_defined", name, "")
    ELSE IF \E i \in 1..Len(atom_types) : atom_types[i].symbol = symbol
        THEN Err("AssertionError", "symbol_already_defined", symbol, "")
    ELSE Success

\* the outcome of ForceField.define_atom_type(name, symbol, mass, **props)
define_atom_type_outcome(name, symbol) ==
    IF name = symbol
        THEN Err("AssertionError", "name_and_symbol_the_same", name, "")
    ELSE IF name \in atom_type_identifiers
        THEN Err("AssertionError", "name_already_defined", name, "")
    ELSE IF symbol \in atom_type_identifiers
        THEN Err("AssertionError", "symbol_already_defined", symbol, "")
    ELSE Success

\* define_atom_type, had line 52 been left out
define_atom_type_symbol_not_added(name, symbol, props) ==
    LET out == define_atom_type_outcome(name, symbol)
        atom_type == [AtomType(name, symbol, props) EXCEPT !.interaction_types = Some(<< >>)]
    IN  /\ ret = Idle
        /\ ret' = [op |-> "define_atom_type", name |-> name, symbol |-> symbol,
                   props |-> props, out |-> out]
        /\ IF Ok(out)
           THEN /\ atom_types' = Append(atom_types, atom_type)
                /\ atom_type_identifiers' = atom_type_identifiers \cup {name}
           ELSE UNCHANGED << atom_types, atom_type_identifiers >>
        /\ UNCHANGED << interaction_types, interaction_type_identifiers, self_name, outside >>

define_atom_type(name, symbol, props) ==
    LET out == define_atom_type_outcome(name, symbol)
        atom_type == [AtomType(name, symbol, props) EXCEPT !.interaction_types = Some(<< >>)]
    IN  /\ ret = Idle
        /\ ret' = [op |-> "define_atom_type", name |-> name, symbol |-> symbol,
                   props |-> props, out |-> out]
        /\ IF Ok(out)
           THEN /\ atom_types' = Append(atom_types, atom_type)
                /\ atom_type_identifiers' = atom_type_identifiers \cup {name, symbol}
           ELSE UNCHANGED << atom_types, atom_type_identifiers >>
        /\ UNCHANGED << interaction_types, interaction_type_identifiers, self_name, outside >>

\* get_atom_type, had the generator compared the names alone
get_atom_type_by_name(identifier) ==
    LET found == {i \in 1..Len(atom_types) : atom_types[i].name = identifier}
    IN  IF identifier \in atom_type_identifiers
        THEN [out |-> Success,
              value |-> IF found = {} THEN NoneRef ELSE << "ff", Min(found) >>]
        ELSE [out |-> Err("ValueError", "atom_type_not_found", identifier, ""),
              value |-> NoneRef]

\* ForceField.get_atom_type(identifier): the exception, or the object found
get_atom_type(identifier) ==
    LET found == {i \in 1..Len(atom_types) :
                     atom_types[i].name = identifier \/ atom_types[i].symbol = identifier}
    IN  IF identifier \in atom_type_identifiers
        THEN [out |-> Success,
              value |-> IF found = {} THEN NoneRef ELSE << "ff", Min(found) >>]
        ELSE [out |-> Err("ValueError", "atom_type_not_found", identifier, ""),
              value |-> NoneRef]

\* lines 79-91 of define_interaction_type: the objects of the argument
atom_types_objects(arg) ==
    [i \in 1..Len(arg) |->
        IF isinstance_AtomType(arg[i]) THEN arg[i] ELSE get_atom_type(arg[i][2]).value]

\* not_found, had the first element alone been looked up
not_found_first(arg) ==
    {i \in 1..Len(arg) :
        i = 1 /\ ~isinstance_AtomType(arg[i]) /\ ~Ok(get_atom_type(arg[i][2]).out)}

\* the positions of the argument whose lookup raises
not_found(arg) ==
    {i \in 1..Len(arg) : ~isinstance_AtomType(arg[i]) /\ ~Ok(get_atom_type(arg[i][2]).out)}

\* append(obj, it): atom_type.interaction_types.append(interaction_type)
append(obj, it) == [obj EXCEPT !.interaction_types = Some(Append(Get(@), it))]

\* interaction_name_defined, had the assertion been left out
interaction_name_defined_never(name) == FALSE

\* interaction_name_defined, had the list been compared with its last name only
interaction_name_defined_last(name) ==
    /\ interaction_types # << >>
    /\ interaction_types[Len(interaction_types)].name = name

\* line 77: the condition that the assertion refuses
interaction_name_defined(name) == name \in interaction_type_identifiers

\* for atom_type in set(atom_types): atom_type.interaction_types.append(...)
\* The sets of objects that the loop can have appended to when it ends: all of
\* set(atom_types), or, when some object of it has interaction_types None (the
\* append raises), any objects the set's iteration order (which depends on
\* the objects' addresses) puts before that one.
iteration_prefixes(objects) ==
    LET distinct == {objects[i] : i \in 1..Len(objects)}
        appendable == {r \in distinct : ~IsNone(Deref(r).interaction_types)}
    IN  IF appendable = distinct THEN {distinct} ELSE SUBSET appendable

\* the outcome of ForceField.define_interaction_type: the first statement that
\* raises, in the order of the code, or success
define_interaction_type_outcome(name, potential, decomposition, arg, parameters, constants, cutoff) ==
    LET objects == atom_types_objects(arg)
        made == InteractionType(name, potential, decomposition, objects,
                                [i \in 1..Len(arg) |-> Deref(objects[i])],
                                parameters, constants, cutoff)
        distinct == {objects[i] : i \in 1..Len(arg)}
        appendable == {r \in distinct : ~IsNone(Deref(r).interaction_types)}
    IN  IF interaction_name_defined(name)
            THEN Err("AssertionError", "interaction_name_already_defined", name, "")
        ELSE IF not_found(arg) # {}
            THEN Err("ValueError", "atom_type_not_found", arg[Min(not_found(arg))][2], "")
        ELSE IF ~Ok(made.out) THEN made.out
        ELSE IF appendable # distinct
            THEN Err("AttributeError", "NoneType_has_no_attribute_append", "", "")
        ELSE Success

\* ForceField.define_interaction_type.  visited is the part of
\* set(atom_types) that the last loop reaches: all of it, or, when some object
\* of it has interaction_types None, the objects that the set's iteration
\* order (which depends on the objects' addresses) puts before that object.
define_interaction_type(name, potential, decomposition, arg, parameters, constants, cutoff, visited) ==
    LET objects == atom_types_objects(arg)
        made == InteractionType(name, potential, decomposition, objects,
                                [i \in 1..Len(arg) |-> Deref(objects[i])],
                                parameters, constants, cutoff)
        index == Len(interaction_types) + 1
        out == define_interaction_type_outcome(name, potential, decomposition, arg,
                                               parameters, constants, cutoff)
        registered == Ok(out) \/ out.raised = "AttributeError"
    IN  /\ ret = Idle
        /\ visited \in iteration_prefixes(objects)
        /\ ret' = [op |-> "define_interaction_type", name |-> name,
                   potential |-> potential, decomposition |-> decomposition,
                   atom_types |-> arg, parameters |-> parameters,
                   constants |-> constants, cutoff |-> cutoff, out |-> out]
        /\ IF registered
           THEN /\ interaction_types' = Append(interaction_types, made.obj)
                /\ interaction_type_identifiers' = interaction_type_identifiers \cup {name}
                /\ atom_types' = [i \in DOMAIN atom_types |->
                        IF << "ff", i >> \in visited
                        THEN append(atom_types[i], index) ELSE atom_types[i]]
                /\ foreign' = [j \in DOMAIN foreign |->
                        IF << "ext", j >> \in visited
                        THEN append(foreign[j], index) ELSE foreign[j]]
           ELSE UNCHANGED << interaction_types, interaction_type_identifiers,
                             atom_types, foreign >>
        /\ UNCHANGED << atom_type_identifiers, self_name, classes >>

\* AtomType(name, symbol, mass, **props), called by the user
new_AtomType(name, symbol, props) ==
    /\ ret = Idle
    /\ foreign' = Append(foreign, AtomType(name, symbol, props))
    /\ ret' = [op |-> "AtomType", name |-> name, symbol |-> symbol, props |-> props,
               out |-> Success]
    /\ UNCHANGED << registry, dicts, classes >>

\* ForceField().define_atom_type(name, symbol, mass, **props): an object that
\* another, new ForceField creates
other_define_atom_type(name, symbol, props) ==
    /\ ret = Idle
    /\ name # symbol
    /\ foreign' = Append(foreign,
            [AtomType(name, symbol, props) EXCEPT !.interaction_types = Some(<< >>)])
    /\ ret' = [op |-> "other.define_atom_type", name |-> name, symbol |-> symbol,
               props |-> props, out |-> Success]
    /\ UNCHANGED << registry, dicts, classes >>

\* A dict object that the caller holds: its items (value), and the attributes
\* of registered InteractionTypes that are this very object (bound), each as
\* << index in interaction_types, "parameters" or "constants" >>.
dict(items) == [value |-> items, bound |-> {}]

\* kept, had __init__ bound the attribute to the caller's dict
\* (self.parameters = parameters) and filled that in
kept_argument(i, attr) == {<< i, attr >>}

\* the attributes of the InteractionType of index i that __init__ binds to
\* the dict passed as attr: none, lines 48-49 bind self.parameters and
\* self.constants to new dicts, and the loops copy item by item into those
kept(i, attr) == {}

\* params = {...}, by the caller
new_dict(items) ==
    /\ ret = Idle
    /\ dicts' = Append(dicts, dict(items))
    /\ ret' = [op |-> "dict", items |-> items, out |-> Success]
    /\ UNCHANGED << registry, foreign, classes >>

\* the argument that stands for the dict object d of the caller (0: omitted)
passed(d) == IF d = 0 THEN None ELSE Some(dicts[d].value)

\* ForceField.define_interaction_type(..., parameters=p, constants=c), p and c
\* dict objects that the caller holds and goes on holding.  No line of
\* define_interaction_type or of __init__ assigns to an item of either.
define_interaction_type_with(iname, potential, decomposition, arg, p, c, cutoff, visited) ==
    LET index == Len(interaction_types) + 1
    IN  /\ define_interaction_type(iname, potential, decomposition, arg, passed(p),
                                   passed(c), cutoff, visited)
        /\ dicts' = [d \in DOMAIN dicts |->
                IF Len(interaction_types') = index
                THEN [dicts[d] EXCEPT !.bound =
                        @ \cup (IF d = p THEN kept(index, "parameters") ELSE {})
                          \cup (IF d = c THEN kept(index, "constants") ELSE {})]
                ELSE dicts[d]]

\* d[key] = value with the items before
setitem(items, key, value) ==
    [k \in DOMAIN items \cup {key} |-> IF k = key THEN value ELSE items[k]]

\* params[key] = value, by the caller: the item changes in the dict object,
\* which every attribute bound to that object shows
dict_setitem(d, key, value) ==
    /\ ret = Idle
    /\ dicts' = [dicts EXCEPT ![d].value = setitem(@, key, value)]
    /\ interaction_types' = [i \in DOMAIN interaction_types |->
            [interaction_types[i] EXCEPT
                !.parameters = IF << i, "parameters" >> \in dicts[d].bound
                               THEN setitem(@, key, value) ELSE @,
                !.constants = IF << i, "constants" >> \in dicts[d].bound
                              THEN setitem(@, key, value) ELSE @]]
    /\ ret' = [op |-> "dict.__setitem__", d |-> d, key |-> key, value |-> value,
               out |-> Success]
    /\ UNCHANGED << atom_types, atom_type_identifiers, interaction_type_identifiers,
                    self_name, foreign, classes >>

\* class cname(*bases): <body that binds namespace>, where some base is
\* Potential or derives from it, so that the metaclass is PotentialMeta
class_statement(cname, bases, namespace) ==
    LET out == PotentialMeta_new(cname, bases, namespace, classes)
    IN  /\ ret = Idle
        /\ ret' = [op |-> "class", name |-> cname, bases |-> bases,
                   namespace |-> namespace, out |-> out]
        /\ classes' = IF Ok(out)
                      THEN Append(classes, [name |-> cname, bases |-> bases,
                                            namespace |-> namespace])
                      ELSE classes
        /\ UNCHANGED << registry, foreign, dicts >>

\* interaction_types[i].F_base(x), .U_base(x), .F(x), .U(x)
evaluate(fn, i, x) ==
    LET it == interaction_types[i]
        result == CASE fn = "F_base" -> F_base(it, x)
                    [] fn = "U_base" -> U_base(it, x)
                    [] fn = "F" -> F(it, x)
                    [] OTHER -> U(it, x)
    IN  /\ ret = Idle
        /\ ret' = [op |-> fn, i |-> i, x |-> x, out |-> result]
        /\ UNCHANGED << registry, outside >>

\* ff.get_atom_type(identifier), called by the user
call_get_atom_type(identifier) ==
    LET got == get_atom_type(identifier)
    IN  /\ ret = Idle
        /\ ret' = [op |-> "get_atom_type", identifier |-> identifier,
                   out |-> got.out, value |-> got.value]
        /\ UNCHANGED << registry, outside >>

\* the caller takes the outcome and goes on
return ==
    /\ ret # Idle
    /\ ret' = Idle
    /\ UNCHANGED << registry, outside >>

\* ------------------------------------------------------ concurrent callers
\* Threads that call F, U, F_base and U_base of a built ForceField.  While they
\* run, ret holds them: ret.threads[t] is thread t, at the line pc of the
\* method fn that it called on interaction_types[i] with x, with the values
\* that its frame holds (stack).  A thread runs one line, or one call of a
\* line, at a time; every read of self.cutoff, self.parameters and
\* self.constants is a read of the shared object at that time.
IdleThread ==
    [pc |-> "idle", fn |-> "", i |-> 0, x |-> Zero, stack |-> << >>, out |-> Returned(Zero)]
running == ret.op = "threads"
at(t, fn, pcs) == running /\ ret.threads[t].fn = fn /\ ret.threads[t].pc \in pcs
goto(t, pc) == [ret EXCEPT !.threads[t].pc = pc]
done(t, out) == [ret EXCEPT !.threads[t].pc = "done", !.threads[t].out = out]
entry(fn) == CASE fn = "F_base" -> "87" [] fn = "U_base" -> "92" [] fn = "F" -> "97"
               [] OTHER -> "104"

\* the threads start, on a ForceField that has been built
spawn(callers) ==
    /\ ret = Idle
    /\ ret' = [op |-> "threads", threads |-> [t \in callers |-> IdleThread]]
    /\ UNCHANGED << registry, outside >>

\* thread t calls interaction_types[i].fn(x)
thread_call(t, fn, i, x) ==
    /\ running
    /\ ret.threads[t].pc = "idle"
    /\ ret' = [ret EXCEPT !.threads[t] =
                [IdleThread EXCEPT !.pc = entry(fn), !.fn = fn, !.i = i, !.x = x]]
    /\ UNCHANGED << registry, outside >>

\* InteractionType.F_base and U_base: line 87, line 92
base_step(t) ==
    /\ \/ at(t, "F_base", {"87"})
       \/ at(t, "U_base", {"92"})
    /\ LET th == ret.threads[t]
           it == interaction_types[th.i]
       IN  ret' = done(t, IF th.fn = "F_base" THEN F_base(it, th.x) ELSE U_base(it, th.x))
    /\ UNCHANGED << registry, outside >>

\* InteractionType.F: line 97 (self.cutoff is not None; x > self.cutoff), line 99
F_step(t) ==
    /\ at(t, "F", {"97", "97b", "99"})
    /\ LET th == ret.threads[t]
           it == interaction_types[th.i]
       IN  ret' =
            CASE th.pc = "97" -> goto(t, IF IsNone(it.cutoff) THEN "99" ELSE "97b")
              [] th.pc = "97b" ->
                    IF IsNone(it.cutoff) THEN done(t, Raises("TypeError"))
                    ELSE IF RLess(Get(it.cutoff), th.x) THEN done(t, Returned(Zero))
                    ELSE goto(t, "99")
              [] OTHER -> done(t, F_base(it, th.x))
    /\ UNCHANGED << registry, outside >>

\* U_step, had U switched the cutoff off while it computes the two energies
\* and put it back before it returns
U_step_cutoff_switched_off(t) ==
    /\ at(t, "U", {"104", "105", "107", "107b", "108"})
    /\ LET th == ret.threads[t]
           it == interaction_types[th.i]
           c == th.stack[1]
           put_back == [interaction_types EXCEPT ![th.i].cutoff = Some(c)]
       IN  CASE th.pc = "104" ->
                    IF IsNone(it.cutoff)
                    THEN ret' = goto(t, "108") /\ UNCHANGED interaction_types
                    ELSE /\ ret' = [goto(t, "105") EXCEPT !.threads[t].stack = << Get(it.cutoff) >>]
                         /\ interaction_types' = [interaction_types EXCEPT ![th.i].cutoff = None]
             [] th.pc = "105" ->
                    IF RLess(c, th.x)
                    THEN ret' = done(t, Returned(Zero)) /\ interaction_types' = put_back
                    ELSE ret' = goto(t, "107") /\ UNCHANGED interaction_types
             [] th.pc = "107" ->
                    LET u == U_base(it, th.x)
                    IN  IF ~Ok(u)
                        THEN ret' = done(t, u) /\ interaction_types' = put_back
                        ELSE /\ ret' = [goto(t, "107b") EXCEPT
                                            !.threads[t].stack = << c, u.value >>]
                             /\ UNCHANGED interaction_types
             [] th.pc = "107b" ->
                    LET uc == U_base(it, c)
                    IN  /\ ret' = done(t, IF ~Ok(uc) THEN uc
                                          ELSE Returned(RSub(th.stack[2], uc.value)))
                        /\ interaction_types' = put_back
             [] OTHER -> ret' = done(t, U_base(it, th.x)) /\ UNCHANGED interaction_types
    /\ UNCHANGED << atom_types, atom_type_identifiers, interaction_type_identifiers,
                    self_name, outside >>

\* InteractionType.U: line 104, line 105, line 107 (self.U_base(x), then
\* self.U_base(self.cutoff) and the difference), line 108
U_step(t) ==
    /\ at(t, "U", {"104", "105", "107", "107b", "108"})
    /\ LET th == ret.threads[t]
           it == interaction_types[th.i]
       IN  ret' =
            CASE th.pc = "104" -> goto(t, IF IsNone(it.cutoff) THEN "108" ELSE "105")
              [] th.pc = "105" ->
                    IF IsNone(it.cutoff) THEN done(t, Raises("TypeError"))
                    ELSE IF RLess(Get(it.cutoff), th.x) THEN done(t, Returned(Zero))
                    ELSE goto(t, "107")
              [] th.pc = "107" ->
                    LET u == U_base(it, th.x)
                    IN  IF ~Ok(u) THEN done(t, u)
                        ELSE [goto(t, "107b") EXCEPT !.threads[t].stack = << u.value >>]
              [] th.pc = "107b" ->
                    IF IsNone(it.cutoff) THEN done(t, Raises("TypeError"))
                    ELSE LET uc == U_base(it, Get(it.cutoff))
                         IN  done(t, IF ~Ok(uc) THEN uc
                                     ELSE Returned(RSub(th.stack[1], uc.value)))
              [] OTHER -> done(t, U_base(it, th.x))
    /\ UNCHANGED << registry, outside >>

\* thread t takes the value returned, or the exception, and goes on
thread_return(t) ==
    /\ running
    /\ ret.threads[t].pc = "done"
    /\ ret' = [ret EXCEPT !.threads[t] = IdleThread]
    /\ UNCHANGED << registry, outside >>

\* -------------------------------------------------------- the calls explored
Identifiers == {"Oxygen", "OW", "Hydrogen", "HW"}
InteractionNames == {"O-H Bond", "O-O LJ"}
NoProps == << >>
PropsO == [charge |-> Int2Rat(-1), sigma |-> Int2Rat(1), epsilon |-> Int2Rat(1)]
PropsH == [charge |-> Int2Rat(2), sigma |-> Int2Rat(2), epsilon |-> Int2Rat(4)]
Xs == {Int2Rat(x) : x \in 0..MaxX}
Evaluators == {"F_base", "U_base", "F", "U"}

\* what an element of the atom_types argument can be in the current state
Elements(identifiers) ==
    {Id(s) : s \in identifiers}
        \cup {<< "ff", i >> : i \in 1..Len(atom_types)}
        \cup {<< "ext", j >> : j \in 1..Len(foreign)}

RECURSIVE Tuples(_, _)
Tuples(S, n) ==
    IF n = 0 THEN {<< >>}
    ELSE LET shorter == Tuples(S, n - 1)
         IN  shorter \cup {Append(t, e) : t \in {u \in shorter : Len(u) = n - 1}, e \in S}

objects_created == Len(atom_types) + Len(foreign) + Len(interaction_types)

\* Spec: the registry.  Any order of calls on one ForceField, with every shape
\* of the atom_types argument.
RegistryProps == {PropsO}
RegistryPotentials == {Harmonic}
\* the identifiers passed in atom_types: at times a name, a symbol, or unknown
RegistryArgIdentifiers == {"Oxygen", "OW"}
RegistryParameters == {None, Some([k |-> Int2Rat(2), eq |-> Int2Rat(1)])}

Next ==
    \/ /\ ret = Idle
       /\ objects_created < MaxObjects
       /\ \E name \in Identifiers, symbol \in Identifiers, props \in RegistryProps :
            define_atom_type(name, symbol, props)
    \/ /\ ret = Idle
       /\ objects_created < MaxObjects
       /\ \E name \in InteractionNames, potential \in RegistryPotentials,
             arg \in Tuples(Elements(RegistryArgIdentifiers), MaxArity),
             parameters \in RegistryParameters :
            \E visited \in iteration_prefixes(atom_types_objects(arg)) :
                define_interaction_type(name, potential, "pairwise", arg, parameters,
                                        None, None, visited) /\ UNCHANGED dicts
    \/ /\ ret = Idle
       /\ objects_created < MaxObjects
       /\ Len(foreign) < MaxForeign
       /\ \E props \in RegistryProps : new_AtomType("Oxygen", "OW", props)
    \/ /\ ret = Idle
       /\ objects_created < MaxObjects
       /\ Len(foreign) < MaxForeign
       /\ \E props \in RegistryProps : other_define_atom_type("Oxygen", "OW", props)
    \/ /\ ret = Idle
       /\ \E identifier \in Identifiers : call_get_atom_type(identifier)
    \/ return

Spec == Init /\ [][Next]_vars

\* SpecEval: resolution and evaluation.  Two atom types with any properties,
\* then one InteractionType with every combination of potential, explicit
\* parameters, explicit constants and cutoff, then its evaluation.
EvalAtomTypes == {<< "Oxygen", "OW" >>, << "Hydrogen", "HW" >>}
EvalIdentifiers == {"OW", "HW"}
EvalProps == {NoProps, PropsO, PropsH}
EvalPotentials == {Harmonic, Coulombic, LennardJones, Linear}
\* explicit parameters: with keys no potential declares (junk), with all the
\* keys of a potential, and with some of them
EvalParameters ==
    { None,
      Some([k |-> Int2Rat(2), eq |-> Int2Rat(1), charge_product |-> Int2Rat(3),
            sigma |-> Int2Rat(2), b |-> Int2Rat(1), junk |-> Int2Rat(5)]),
      Some([k |-> Int2Rat(2), epsilon |-> Int2Rat(3), sigma |-> Int2Rat(1),
            a |-> Int2Rat(2), b |-> Int2Rat(1)]) }
\* explicit constants: none, a dict with a key no potential declares (junk),
\* a negative dielectric constant, and a conversion factor of 0
EvalConstants ==
    { None, Some([epsilon_r |-> Int2Rat(2), kT |-> Int2Rat(3), junk |-> Int2Rat(5)]),
      Some([epsilon_r |-> Int2Rat(-2)]), Some([ecf |-> Int2Rat(0)]) }
\* the cutoffs: none, 0, at eq of the explicit parameters, and for Harmonic
\* beyond eq too (for the other potentials the energies at a larger cutoff
\* have denominators beyond the integers TLC computes with)
EvalCutoffs(potential) ==
    { None, Some(Int2Rat(0)), Some(Int2Rat(1)) }
        \cup IF potential = Harmonic THEN { Some(Int2Rat(2)) } ELSE {}

NextEval ==
    \/ /\ ret = Idle
       /\ interaction_types = << >>
       /\ \E a \in EvalAtomTypes, props \in EvalProps : define_atom_type(a[1], a[2], props)
    \/ /\ ret = Idle
       /\ interaction_types = << >>
       /\ \E potential \in EvalPotentials,
             arg \in Tuples(Elements(EvalIdentifiers), MaxArity),
             parameters \in EvalParameters, constants \in EvalConstants :
            \E cutoff \in EvalCutoffs(potential) :
            \E visited \in iteration_prefixes(atom_types_objects(arg)) :
                define_interaction_type("O-H Bond", potential, "pairwise", arg,
                                        parameters, constants, cutoff, visited) /\ UNCHANGED dicts
    \/ /\ ret = Idle
       /\ \E fn \in Evaluators, i \in 1..Len(interaction_types), x \in Xs :
            evaluate(fn, i, x)
    \/ return

SpecEval == Init /\ [][NextEval]_vars

\* SpecConc: one AtomType and one InteractionType between two atoms of it are
\* built, then MaxCallers threads evaluate it,
\* each one line at a time, in any interleaving.
Callers == 1..MaxCallers
ConcPotentials == {Harmonic, Coulombic}
ConcParameters ==
    { Some([k |-> Int2Rat(2), eq |-> Int2Rat(0), charge_product |-> Int2Rat(3)]) }
ConcCutoffs == { None, Some(Int2Rat(1)) }

NextConc ==
    \/ /\ ret = Idle
       /\ atom_types = << >>
       /\ interaction_types = << >>
       /\ define_atom_type("Oxygen", "OW", PropsO)
    \/ /\ ret = Idle
       /\ atom_types # << >>
       /\ interaction_types = << >>
       /\ \E potential \in ConcPotentials, arg \in {<< Id("OW"), Id("OW") >>},
             parameters \in ConcParameters, cutoff \in ConcCutoffs :
            \E visited \in iteration_prefixes(atom_types_objects(arg)) :
                define_interaction_type("O-H Bond", potential, "pairwise", arg,
                                        parameters, None, cutoff, visited) /\ UNCHANGED dicts
    \/ /\ ~running
       /\ return
    \/ /\ interaction_types # << >>
       /\ spawn(Callers)
    \/ \E t \in Callers, fn \in Evaluators, i \in 1..Len(interaction_types), x \in Xs :
            thread_call(t, fn, i, x)
    \/ \E t \in Callers : base_step(t)
    \/ \E t \in Callers : F_step(t)
    \/ \E t \in Callers : U_step(t)
    \/ \E t \in Callers : thread_return(t)

SpecConc == Init /\ [][NextConc]_vars

\* SpecRule: the combination rules.  Two atom types, the first with a positive
\* or a negative epsilon, the second with a negative one, then two
\* Coulombic or LennardJones interactions without explicit parameters between
\* up to MaxRuleArity of them, in any order and with repetitions.
PropsA == [charge |-> Int2Rat(3), sigma |-> Rat(3, 10), epsilon |-> Int2Rat(-1)]
PropsB == [charge |-> Int2Rat(-2), sigma |-> Rat(4, 10), epsilon |-> Int2Rat(-4)]
RuleAtomTypes ==
    { << "Oxygen", "OW", PropsO >>, << "Oxygen", "OW", PropsA >>,
      << "Hydrogen", "HW", PropsB >> }
RulePotentials == {Coulombic, LennardJones}

NextRule ==
    \/ /\ ret = Idle
       /\ interaction_types = << >>
       /\ \E a \in RuleAtomTypes : define_atom_type(a[1], a[2], a[3])
    \/ /\ ret = Idle
       /\ Len(atom_types) = 2
       /\ Len(interaction_types) < 2
       /\ \E potential \in RulePotentials,
             arg \in Tuples(Elements(EvalIdentifiers), MaxRuleArity) :
            \E visited \in iteration_prefixes(atom_types_objects(arg)) :
                define_interaction_type(
                    IF interaction_types = << >> THEN "O-H Bond" ELSE "O-O LJ",
                    potential, "pairwise", arg, None, None, None, visited) /\ UNCHANGED dicts
    \/ return

SpecRule == Init /\ [][NextRule]_vars

\* SpecDict: the arguments that the caller holds.  One AtomType is defined,
\* the caller makes up to MaxDicts dicts, defines up to two InteractionTypes
\* from them, with any decomposition tag, and assigns to items of the dicts
\* before, between and after.
DictItems == { [k |-> Int2Rat(2), eq |-> Int2Rat(1), epsilon_r |-> Int2Rat(2)] }
DictPotentials == {Harmonic, Coulombic}
DictKeys == {"k", "epsilon_r"}
\* the tags passed: two of DecompositionType, and a string that is none of it
Decompositions == {DecompositionType.bond, DecompositionType.pairwise, "wibble"}

NextDict ==
    \/ /\ ret = Idle
       /\ atom_types = << >>
       /\ define_atom_type("Oxygen", "OW", PropsO)
       /\ UNCHANGED dicts
    \/ /\ ret = Idle
       /\ Len(dicts) < MaxDicts
       /\ \E items \in DictItems : new_dict(items)
    \/ /\ ret = Idle
       /\ atom_types # << >>
       /\ Len(interaction_types) < 2
       /\ \E potential \in DictPotentials, decomposition \in Decompositions,
             p \in 0..Len(dicts), c \in 0..Len(dicts) :
            \E visited \in iteration_prefixes(atom_types_objects(<< Id("OW"), Id("OW") >>)) :
                define_interaction_type_with(
                    IF interaction_types = << >> THEN "O-H Bond" ELSE "O-O LJ",
                    potential, decomposition, << Id("OW"), Id("OW") >>, p, c, None, visited)
    \/ /\ ret = Idle
       /\ \E d \in 1..Len(dicts), key \in DictKeys : dict_setitem(d, key, Int2Rat(7))
    \/ return

SpecDict == Init /\ [][NextDict]_vars

\* SpecClass: class statements.  The caller creates up to MaxClasses classes
\* that derive from Potential: directly, beside a class of its own that comes
\* first or second, or through a class created before; with all the required
\* names in the body, with one of them left out, or with none.
ClassNames == {"Linear", "Potential"}
Namespaces == {Required, {}} \cup {Required \ {m} : m \in Required}
Bases ==
    {<< PotentialClass >>, << PlainClass, PotentialClass >>, << PotentialClass, PlainClass >>}
        \cup {<< << "class", i >> >> : i \in 1..Len(classes)}
        \cup {<< PlainClass, << "class", i >> >> : i \in 1..Len(classes)}

NextClass ==
    \/ /\ ret = Idle
       /\ Len(classes) < MaxClasses
       /\ \E cname \in ClassNames, bases \in Bases, namespace \in Namespaces :
            class_statement(cname, bases, namespace)
    \/ return

SpecClass == Init /\ [][NextClass]_vars

\* -------------------------------------------------------- force_field/examples
\* The example catalogs: subclasses of ForceField whose __init__ sets the name
\* and makes the calls below, the define_atom_type calls first.  Each is
\* written as the name, the define_atom_type calls and the
\* define_interaction_type calls, in the order of the file.  flexible,
\* category_name, bonded and mass are stored and never read, and are left out;
\* epsilon is carried to four decimal places (the square of a value of five
\* places is beyond the integers TLC computes with); 'FBA/epsilon' is
\* written with the Greek letter in the file.
\* examples/fba.py
FBA ==
    [name |-> "FBA/epsilon",
     atom_types |-> <<
        [name |-> "Oxygen", symbol |-> "OW",
         props |-> [charge |-> Rat(-169, 200), sigma |-> Rat(993, 3125),
                   epsilon |-> Rat(7923, 10000)]],
        [name |-> "Hydrogen", symbol |-> "HW",
         props |-> [charge |-> Rat(169, 400)]] >>,
     interaction_types |-> <<
        [name |-> "O-H Bond", potential |-> Harmonic, decomposition |-> DecompositionType.bond,
         atom_types |-> << Id("OW"), Id("HW") >>,
         parameters |-> Some([k |-> Int2Rat(300000), eq |-> Rat(1027, 10000)]), cutoff |-> None],
        [name |-> "H-O-H Angle", potential |-> Harmonic, decomposition |-> DecompositionType.angle,
         atom_types |-> << Id("HW"), Id("OW"), Id("HW") >>,
         parameters |-> Some([k |-> Int2Rat(383), eq |-> Rat(200189, 100000)]), cutoff |-> None],
        [name |-> "H-H Electrostatic", potential |-> Coulombic,
         decomposition |-> DecompositionType.pairwise,
         atom_types |-> << Id("HW"), Id("HW") >>,
         parameters |-> None, cutoff |-> Some(Int2Rat(1))],
        [name |-> "O-H Electrostatic", potential |-> Coulombic,
         decomposition |-> DecompositionType.pairwise,
         atom_types |-> << Id("OW"), Id("HW") >>,
         parameters |-> None, cutoff |-> Some(Int2Rat(1))],
        [name |-> "O-O Electrostatic", potential |-> Coulombic,
         decomposition |-> DecompositionType.pairwise,
         atom_types |-> << Id("OW"), Id("OW") >>,
         parameters |-> None, cutoff |-> Some(Int2Rat(1))],
        [name |-> "O-O Dispersion", potential |-> LennardJones,
         decomposition |-> DecompositionType.pairwise,
         atom_types |-> << Id("OW"), Id("OW") >>,
         parameters |-> None, cutoff |-> Some(Int2Rat(1))] >>]

\* examples/opc3.py
OPC3 ==
    [name |-> "OPC3",
     atom_types |-> <<
        [name |-> "Oxygen", symbol |-> "OW",
         props |-> [charge |-> Rat(-1119, 1250), sigma |-> Rat(31743, 100000),
                   epsilon |-> Rat(6837, 10000)]],
        [name |-> "Hydrogen", symbol |-> "HW",
         props |-> [charge |-> Rat(1119, 2500)]] >>,
     interaction_types |-> <<
        [name |-> "H-H Electrostatic", potential |-> Coulombic,
         decomposition |-> DecompositionType.pairwise,
         atom_types |-> << Id("HW"), Id("HW") >>,
         parameters |-> None, cutoff |-> Some(Int2Rat(1))],
        [name |-> "O-H Electrostatic", potential |-> Coulombic,
         decomposition |-> DecompositionType.pairwise,
         atom_types |-> << Id("OW"), Id("HW") >>,
         parameters |-> None, cutoff |-> Some(Int2Rat(1))],
        [name |-> "O-O Electrostatic", potential |-> Coulombic,
         decomposition |-> DecompositionType.pairwise,
         atom_types |-> << Id("OW"), Id("OW") >>,
         parameters |-> None, cutoff |-> Some(Int2Rat(1))],
        [name |-> "O-O Dispersion", potential |-> LennardJones,
         decomposition |-> DecompositionType.pairwise,
         atom_types |-> << Id("OW"), Id("OW") >>,
         parameters |-> None, cutoff |-> Some(Int2Rat(1))] >>]

\* examples/spc_e.py
SPC_E ==
    [name |-> "SPC/E",
     atom_types |-> <<
        [name |-> "Oxygen", symbol |-> "OW",
         props |-> [charge |-> Rat(-2119, 2500), sigma |-> Rat(1583, 5000),
                   epsilon |-> Rat(3251, 5000)]],
        [name |-> "Hydrogen", symbol |-> "HW",
         props |-> [charge |-> Rat(2119, 5000)]] >>,
     interaction_types |-> <<
        [name |-> "H-H Electrostatic", potential |-> Coulombic,
         decomposition |-> DecompositionType.pairwise,
         atom_types |-> << Id("HW"), Id("HW") >>,
         parameters |-> None, cutoff |-> Some(Int2Rat(1))],
        [name |-> "O-H Electrostatic", potential |-> Coulombic,
         decomposition |-> DecompositionType.pairwise,
         atom_types |-> << Id("OW"), Id("HW") >>,
         parameters |-> None, cutoff |-> Some(Int2Rat(1))],
        [name |-> "O-O Electrostatic", potential |-> Coulombic,
         decomposition |-> DecompositionType.pairwise,
         atom_types |-> << Id("OW"), Id("OW") >>,
         parameters |-> None, cutoff |-> Some(Int2Rat(1))],
        [name |-> "O-O Dispersion", potential |-> LennardJones,
         decomposition |-> DecompositionType.pairwise,
         atom_types |-> << Id("OW"), Id("OW") >>,
         parameters |-> None, cutoff |-> Some(Int2Rat(1))] >>]

\* SPC_FW, had the hydrogen been defined without its charge
SPC_FW_hydrogen_without_charge ==
    [name |-> "SPC/Fw",
     atom_types |-> <<
        [name |-> "Oxygen", symbol |-> "OW",
         props |-> [charge |-> Rat(-41, 50), sigma |-> Rat(6331, 20000),
                   epsilon |-> Rat(6503, 10000)]],
        [name |-> "Hydrogen", symbol |-> "HW",
         props |-> NoProps] >>,
     interaction_types |-> <<
        [name |-> "O-H Bond", potential |-> Harmonic, decomposition |-> DecompositionType.bond,
         atom_types |-> << Id("OW"), Id("HW") >>,
         parameters |-> Some([k |-> Int2Rat(423664), eq |-> Rat(253, 2500)]), cutoff |-> None],
        [name |-> "H-O-H Angle", potential |-> Harmonic, decomposition |-> DecompositionType.angle,
         atom_types |-> << Id("HW"), Id("OW"), Id("HW") >>,
         parameters |-> Some([k |-> Rat(7939, 25), eq |-> Rat(197641, 100000)]), cutoff |-> None],
        [name |-> "H-H Electrostatic", potential |-> Coulombic,
         decomposition |-> DecompositionType.pairwise,
         atom_types |-> << Id("HW"), Id("HW") >>,
         parameters |-> None, cutoff |-> Some(Int2Rat(1))],
        [name |-> "O-H Electrostatic", potential |-> Coulombic,
         decomposition |-> DecompositionType.pairwise,
         atom_types |-> << Id("OW"), Id("HW") >>,
         parameters |-> None, cutoff |-> Some(Int2Rat(1))],
        [name |-> "O-O Electrostatic", potential |-> Coulombic,
         decomposition |-> DecompositionType.pairwise,
         atom_types |-> << Id("OW"), Id("OW") >>,
         parameters |-> None, cutoff |-> Some(Int2Rat(1))],
        [name |-> "O-O Dispersion", potential |-> LennardJones,
         decomposition |-> DecompositionType.pairwise,
         atom_types |-> << Id("OW"), Id("OW") >>,
         parameters |-> None, cutoff |-> Some(Int2Rat(1))] >>]

\* examples/spc_fw.py
SPC_FW ==
    [name |-> "SPC/Fw",
     atom_types |-> <<
        [name |-> "Oxygen", symbol |-> "OW",
         props |-> [charge |-> Rat(-41, 50), sigma |-> Rat(6331, 20000),
                   epsilon |-> Rat(6503, 10000)]],
        [name |-> "Hydrogen", symbol |-> "HW",
         props |-> [charge |-> Rat(41, 100)]] >>,
     interaction_types |-> <<
        [name |-> "O-H Bond", potential |-> Harmonic, decomposition |-> DecompositionType.bond,
         atom_types |-> << Id("OW"), Id("HW") >>,
         parameters |-> Some([k |-> Int2Rat(423664), eq |-> Rat(253, 2500)]), cutoff |-> None],
        [name |-> "H-O-H Angle", potential |-> Harmonic, decomposition |-> DecompositionType.angle,
         atom_types |-> << Id("HW"), Id("OW"), Id("HW") >>,
         parameters |-> Some([k |-> Rat(7939, 25), eq |-> Rat(197641, 100000)]), cutoff |-> None],
        [name |-> "H-H Electrostatic", potential |-> Coulombic,
         decomposition |-> DecompositionType.pairwise,
         atom_types |-> << Id("HW"), Id("HW") >>,
         parameters |-> None, cutoff |-> Some(Int2Rat(1))],
        [name |-> "O-H Electrostatic", potential |-> Coulombic,
         decomposition |-> DecompositionType.pairwise,
         atom_types |-> << Id("OW"), Id("HW") >>,
         parameters |-> None, cutoff |-> Some(Int2Rat(1))],
        [name |-> "O-O Electrostatic", potential |-> Coulombic,
         decomposition |-> DecompositionType.pairwise,
         atom_types |-> << Id("OW"), Id("OW") >>,
         parameters |-> None, cutoff |-> Some(Int2Rat(1))],
        [name |-> "O-O Dispersion", potential |-> LennardJones,
         decomposition |-> DecompositionType.pairwise,
         atom_types |-> << Id("OW"), Id("OW") >>,
         parameters |-> None, cutoff |-> Some(Int2Rat(1))] >>]

\* examples/tip3p_ew.py
TIP3P_EW ==
    [name |-> "TIP3P-EW",
     atom_types |-> <<
        [name |-> "Oxygen", symbol |-> "OW",
         props |-> [charge |-> Rat(-417, 500), sigma |-> Rat(797, 2500),
                   epsilon |-> Rat(427, 1000)]],
        [name |-> "Hydrogen", symbol |-> "HW",
         props |-> [charge |-> Rat(417, 1000)]] >>,
     interaction_types |-> <<
        [name |-> "H-H Electrostatic", potential |-> Coulombic,
         decomposition |-> DecompositionType.pairwise,
         atom_types |-> << Id("HW"), Id("HW") >>,
         parameters |-> None, cutoff |-> Some(Int2Rat(1))],
        [name |-> "O-H Electrostatic", potential |-> Coulombic,
         decomposition |-> DecompositionType.pairwise,
         atom_types |-> << Id("OW"), Id("HW") >>,
         parameters |-> None, cutoff |-> Some(Int2Rat(1))],
        [name |-> "O-O Electrostatic", potential |-> Coulombic,
         decomposition |-> DecompositionType.pairwise,
         atom_types |-> << Id("OW"), Id("OW") >>,
         parameters |-> None, cutoff |-> Some(Int2Rat(1))],
        [name |-> "O-O Dispersion", potential |-> LennardJones,
         decomposition |-> DecompositionType.pairwise,
         atom_types |-> << Id("OW"), Id("OW") >>,
         parameters |-> None, cutoff |-> Some(Int2Rat(1))] >>]

\* examples/tip3p_fb.py
TIP3P_FB ==
    [name |-> "TIP3P-FB",
     atom_types |-> <<
        [name |-> "Oxygen", symbol |-> "OW",
         props |-> [charge |-> Rat(-2121, 2500), sigma |-> Rat(1589, 5000),
                   epsilon |-> Rat(6521, 10000)]],
        [name |-> "Hydrogen", symbol |-> "HW",
         props |-> [charge |-> Rat(2121, 5000)]] >>,
     interaction_types |-> <<
        [name |-> "H-H Electrostatic", potential |-> Coulombic,
         decomposition |-> DecompositionType.pairwise,
         atom_types |-> << Id("HW"), Id("HW") >>,
         parameters |-> None, cutoff |-> Some(Int2Rat(1))],
        [name |-> "O-H Electrostatic", potential |-> Coulombic,
         decomposition |-> DecompositionType.pairwise,
         atom_types |-> << Id("OW"), Id("HW") >>,
         parameters |-> None, cutoff |-> Some(Int2Rat(1))],
        [name |-> "O-O Electrostatic", potential |-> Coulombic,
         decomposition |-> DecompositionType.pairwise,
         atom_types |-> << Id("OW"), Id("OW") >>,
         parameters |-> None, cutoff |-> Some(Int2Rat(1))],
        [name |-> "O-O Dispersion", potential |-> LennardJones,
         decomposition |-> DecompositionType.pairwise,
         atom_types |-> << Id("OW"), Id("OW") >>,
         parameters |-> None, cutoff |-> Some(Int2Rat(1))] >>]

\* examples/tip3p_fs.py
TIP3P_FS ==
    [name |-> "TIP3P-Fs",
     atom_types |-> <<
        [name |-> "Oxygen", symbol |-> "OW",
         props |-> [charge |-> Rat(-417, 500), sigma |-> Rat(31507, 100000),
                   epsilon |-> Rat(1591, 2500)]],
        [name |-> "Hydrogen", symbol |-> "HW",
         props |-> [charge |-> Rat(417, 1000)]] >>,
     interaction_types |-> <<
        [name |-> "O-H Bond", potential |-> Harmonic, decomposition |-> DecompositionType.bond,
         atom_types |-> << Id("OW"), Id("HW") >>,
         parameters |-> Some([k |-> Int2Rat(502416), eq |-> Rat(2393, 25000)]), cutoff |-> None],
        [name |-> "H-O-H Angle", potential |-> Harmonic, decomposition |-> DecompositionType.angle,
         atom_types |-> << Id("HW"), Id("OW"), Id("HW") >>,
         parameters |-> Some([k |-> Rat(31401, 50), eq |-> Rat(91211, 50000)]), cutoff |-> None],
        [name |-> "H-H Electrostatic", potential |-> Coulombic,
         decomposition |-> DecompositionType.pairwise,
         atom_types |-> << Id("HW"), Id("HW") >>,
         parameters |-> None, cutoff |-> Some(Int2Rat(1))],
        [name |-> "O-H Electrostatic", potential |-> Coulombic,
         decomposition |-> DecompositionType.pairwise,
         atom_types |-> << Id("OW"), Id("HW") >>,
         parameters |-> None, cutoff |-> Some(Int2Rat(1))],
        [name |-> "O-O Electrostatic", potential |-> Coulombic,
         decomposition |-> DecompositionType.pairwise,
         atom_types |-> << Id("OW"), Id("OW") >>,
         parameters |-> None, cutoff |-> Some(Int2Rat(1))],
        [name |-> "O-O Dispersion", potential |-> LennardJones,
         decomposition |-> DecompositionType.pairwise,
         atom_types |-> << Id("OW"), Id("OW") >>,
         parameters |-> None, cutoff |-> Some(Int2Rat(1))] >>]

\* examples/tip3p_pw.py
TIP3P_PW ==
    [name |-> "TIP3P_PW",
     atom_types |-> <<
        [name |-> "Oxygen", symbol |-> "OW",
         props |-> [charge |-> Rat(-417, 500), sigma |-> Rat(31507, 100000),
                   epsilon |-> Rat(1591, 2500)]],
        [name |-> "Hydrogen", symbol |-> "HW",
         props |-> [charge |-> Rat(417, 1000)]] >>,
     interaction_types |-> <<
        [name |-> "O-H Bond", potential |-> Harmonic, decomposition |-> DecompositionType.bond,
         atom_types |-> << Id("OW"), Id("HW") >>,
         parameters |-> Some([k |-> Int2Rat(502416), eq |-> Rat(2393, 25000)]), cutoff |-> None],
        [name |-> "H-H Pseudobond", potential |-> Harmonic,
         decomposition |-> DecompositionType.bond,
         atom_types |-> << Id("HW"), Id("HW") >>,
         parameters |-> Some([k |-> Int2Rat(145330), eq |-> Rat(15139, 100000)]), cutoff |-> None],
        [name |-> "H-H Electrostatic", potential |-> Coulombic,
         decomposition |-> DecompositionType.pairwise,
         atom_types |-> << Id("HW"), Id("HW") >>,
         parameters |-> None, cutoff |-> Some(Int2Rat(1))],
        [name |-> "O-H Electrostatic", potential |-> Coulombic,
         decomposition |-> DecompositionType.pairwise,
         atom_types |-> << Id("OW"), Id("HW") >>,
         parameters |-> None, cutoff |-> Some(Int2Rat(1))],
        [name |-> "O-O Electrostatic", potential |-> Coulombic,
         decomposition |-> DecompositionType.pairwise,
         atom_types |-> << Id("OW"), Id("OW") >>,
         parameters |-> None, cutoff |-> Some(Int2Rat(1))],
        [name |-> "O-O Dispersion", potential |-> LennardJones,
         decomposition |-> DecompositionType.pairwise,
         atom_types |-> << Id("OW"), Id("OW") >>,
         parameters |-> None, cutoff |-> Some(Int2Rat(1))] >>]

Catalogs == {FBA, OPC3, SPC_E, SPC_FW, TIP3P_EW, TIP3P_FB, TIP3P_FS, TIP3P_PW}

\* the catalog whose __init__ runs, once it has set self.name
building(c) == self_name = Some(c.name)
\* every call of the catalog c has been made and has returned
built(c) ==
    /\ building(c)
    /\ Len(atom_types) = Len(c.atom_types)
    /\ Len(interaction_types) = Len(c.interaction_types)
    /\ ret = Idle

\* c(): ForceField.__init__ has run (Init); self.name = ...
catalog_init(c) ==
    /\ ret = Idle
    /\ self_name = None
    /\ self_name' = Some(c.name)
    /\ UNCHANGED << atom_types, atom_type_identifiers, interaction_types,
                    interaction_type_identifiers, outside, ret >>

\* the next self.define_atom_type(...) of c.__init__
catalog_define_atom_type(c) ==
    /\ building(c)
    /\ Len(atom_types) < Len(c.atom_types)
    /\ LET call == c.atom_types[Len(atom_types) + 1]
       IN  define_atom_type(call.name, call.symbol, call.props)

\* the next self.define_interaction_type(...) of c.__init__
catalog_define_interaction_type(c, visited) ==
    /\ building(c)
    /\ Len(atom_types) = Len(c.atom_types)
    /\ Len(interaction_types) < Len(c.interaction_types)
    /\ LET call == c.interaction_types[Len(interaction_types) + 1]
       IN  define_interaction_type(call.name, call.potential, call.decomposition,
                                   call.atom_types, call.parameters, None, call.cutoff,
                                   visited)
    /\ UNCHANGED dicts

\* a call of c.__init__ returns and __init__ goes on; a call that raises ends
\* __init__, which makes no further call
catalog_return ==
    /\ ret # Idle
    /\ Ok(ret.out)
    /\ return

\* SpecCatalog: one of the example catalogs is constructed.
NextCatalog ==
    \/ \E c \in Catalogs : catalog_init(c)
    \/ \E c \in Catalogs : catalog_define_atom_type(c)
    \/ \E c \in Catalogs :
        \E visited \in SUBSET {<< "ff", i >> : i \in 1..Len(atom_types)} :
            catalog_define_interaction_type(c, visited)
    \/ catalog_return

SpecCatalog == Init /\ [][NextCatalog]_vars

\* ------------------------------------------------------------------ claims
\* the call whose outcome the caller holds
called(op) == ret.op = op
last_interaction == interaction_types[Len(interaction_types)]
names_and_symbols(atoms) ==
    {atoms[i].name : i \in 1..Len(atoms)} \cup {atoms[i].symbol : i \in 1..Len(atoms)}

\* C1: after any sequence of define_atom_type and define_interaction_type
\* calls, successful or failed, no two registered AtomTypes share a name, no
\* two share a symbol, no AtomType's name is another's symbol, and no
\* AtomType has name = symbol.
C1_AtomTypeIdentifiersDistinct ==
    \A i, j \in 1..Len(atom_types) :
        /\ atom_types[i].name # atom_types[i].symbol
        /\ i # j => /\ atom_types[i].name # atom_types[j].name
                    /\ atom_types[i].symbol # atom_types[j].symbol
                    /\ atom_types[i].name # atom_types[j].symbol

\* two AtomTypes are registered and a further define_atom_type was refused
C1_Witness ==
    /\ Len(atom_types) = 2
    /\ called("define_atom_type")
    /\ ~Ok(ret.out)

\* C2: after any sequence of define_* calls, no two entries of
\* interaction_types have the same name.
C2_InteractionNamesDistinct ==
    \A i, j \in 1..Len(interaction_types) :
        i # j => interaction_types[i].name # interaction_types[j].name

\* two InteractionTypes are registered and a call reusing a name was refused
C2_Witness ==
    /\ Len(interaction_types) = 2
    /\ called("define_interaction_type")
    /\ ret.out.cause = "interaction_name_already_defined"

\* C3: a define_atom_type or define_interaction_type call that raises leaves
\* atom_types, atom_type_identifiers, interaction_types,
\* interaction_type_identifiers and every AtomType's back-reference list as
\* they were before the call.
C3_RaisingCallChangesNothing ==
    [][(/\ ret = Idle
        /\ ret'.op \in {"define_atom_type", "define_interaction_type"}
        /\ ~Ok(ret'.out))
       => (registry' = registry /\ foreign' = foreign)]_vars

\* C4: define_atom_type(name, symbol, ...) fails if and only if name = symbol,
\* or name or symbol is the name or the symbol of a registered AtomType; a
\* failing call registers nothing; every other call appends exactly one
\* AtomType, with an empty back-reference list, and adds name and symbol to
\* the identifier set.
C4_DefineAtomTypeFailsIffCollision ==
    [][(ret = Idle /\ ret'.op = "define_atom_type") =>
        LET name == ret'.name
            symbol == ret'.symbol
            taken == names_and_symbols(atom_types)
            fails == name = symbol \/ name \in taken \/ symbol \in taken
        IN  /\ ~Ok(ret'.out) <=> fails
            /\ fails => /\ atom_types' = atom_types
                        /\ atom_type_identifiers' = atom_type_identifiers
            /\ ~fails =>
                /\ atom_types' = Append(atom_types,
                        [name |-> name, symbol |-> symbol, props |-> ret'.props,
                         interaction_types |-> Some(<< >>)])
                /\ atom_type_identifiers' = atom_type_identifiers \cup {name, symbol}
      ]_vars

\* a call whose symbol is the name of a registered AtomType was refused
C4_Witness ==
    /\ called("define_atom_type")
    /\ ~Ok(ret.out)
    /\ ret.name # ret.symbol
    /\ \E i \in 1..Len(atom_types) :
        atom_types[i].name = ret.symbol /\ atom_types[i].symbol # ret.name

\* C5: define_interaction_type with the name of a registered InteractionType
\* fails with the duplicate-name error, whatever the other arguments are, and
\* registers no second interaction.
C5_DuplicateInteractionNameRefused ==
    [][(/\ ret = Idle
        /\ ret'.op = "define_interaction_type"
        /\ \E i \in 1..Len(interaction_types) : interaction_types[i].name = ret'.name)
       => /\ ret'.out.raised = "AssertionError"
          /\ ret'.out.cause = "interaction_name_already_defined"
          /\ interaction_types' = interaction_types
          /\ interaction_type_identifiers' = interaction_type_identifiers]_vars

\* a registered name was reused in a call whose atom_types holds an
\* identifier that is not registered, and the call was refused for the name
C5_Witness ==
    /\ called("define_interaction_type")
    /\ \E i \in 1..Len(interaction_types) : interaction_types[i].name = ret.name
    /\ ret.out.cause = "interaction_name_already_defined"
    /\ \E k \in 1..Len(ret.atom_types) :
        /\ ret.atom_types[k][1] = "id"
        /\ ret.atom_types[k][2] \notin names_and_symbols(atom_types)

\* the explicit dict of an optional argument ({} for None)
given(optional) == IF IsNone(optional) THEN << >> ELSE Get(optional)
\* the objects that the atom_types argument of the held call stands for
held_atoms == LET objects == atom_types_objects(ret.atom_types)
              IN  [i \in 1..Len(objects) |-> Deref(objects[i])]

\* C6: the keys of every constructed InteractionType's resolved parameters
\* are exactly its potential's parameter_names, and the keys of its resolved
\* constants exactly its constant_names, also when the caller's dicts hold
\* keys that the potential does not declare.
C6_ResolvedKeysExact ==
    \A i \in 1..Len(interaction_types) :
        /\ DOMAIN interaction_types[i].parameters
                = interaction_types[i].potential.parameter_names
        /\ DOMAIN interaction_types[i].constants
                = interaction_types[i].potential.constant_names

\* an InteractionType was constructed from dicts that both hold an undeclared key
C6_Witness ==
    /\ called("define_interaction_type")
    /\ Ok(ret.out)
    /\ Len(interaction_types) = 1
    /\ "junk" \in DOMAIN given(ret.parameters)
    /\ "junk" \in DOMAIN given(ret.constants)

\* C7: every parameter that the potential requires and the caller gave
\* explicitly is resolved to the caller's value, never to the combination
\* rule's, also when the potential has a rule and the atom types carry the
\* properties that the rule uses.
C7_ExplicitParameterWins ==
    (called("define_interaction_type") /\ Ok(ret.out)) =>
        \A p \in ret.potential.parameter_names \cap DOMAIN given(ret.parameters) :
            last_interaction.parameters[p] = given(ret.parameters)[p]

\* a Coulombic interaction was constructed with an explicit charge_product
\* between atom types whose charges the rule would multiply to another value
C7_Witness ==
    /\ called("define_interaction_type")
    /\ Ok(ret.out)
    /\ ret.potential = Coulombic
    /\ "charge_product" \in DOMAIN given(ret.parameters)
    /\ LET rule == Coulombic_calculate_parameters(held_atoms)
       IN  /\ rule.raised = NoError
           /\ rule.value.charge_product # given(ret.parameters).charge_product

\* the InteractionType that the held evaluation was called on
evaluated == interaction_types[ret.i]
beyond_cutoff == ~IsNone(evaluated.cutoff) /\ RLess(Get(evaluated.cutoff), ret.x)
at_cutoff == ~IsNone(evaluated.cutoff) /\ ret.x = Get(evaluated.cutoff)

\* C8 as stated: with cutoff c set, U(c) is 0 exactly, and F(x) and U(x) are 0
\* for every x > c.
C8_ZeroAtAndBeyondCutoff ==
    /\ (called("U") /\ at_cutoff) => ret.out = Returned(Zero)
    /\ ((called("F") \/ called("U")) /\ beyond_cutoff) => ret.out = Returned(Zero)

\* C8 (amended): with cutoff c set, F(x) and U(x) are 0 for every x > c, and
\* U(c) is 0 exactly whenever U_base(c) returns a number; where U_base(c)
\* raises, U(c) raises the same error.
C8_ZeroBeyondCutoffAndAtCutoffWhereDefined ==
    /\ ((called("F") \/ called("U")) /\ beyond_cutoff) => ret.out = Returned(Zero)
    /\ (called("U") /\ at_cutoff) =>
        LET uc == U_base(evaluated, Get(evaluated.cutoff))
        IN  IF Ok(uc) THEN ret.out = Returned(Zero) ELSE ret.out = uc

\* U was called at the cutoff, where U_base is not 0, and returned
C8_Witness ==
    /\ called("U")
    /\ at_cutoff
    /\ Ok(ret.out)
    /\ LET uc == U_base(evaluated, ret.x) IN Ok(uc) /\ ~IsZero(uc.value)

\* C9: with cutoff c set and x <= c, U(x) is U_base(x) - U_base(c) (raising
\* where either raises) and F(x) is F_base(x), at x = c too; with no cutoff,
\* U(x) is U_base(x) and F(x) is F_base(x).  A cutoff of 0 counts as set.
C9_CutoffShiftedEvaluation ==
    /\ (called("F") /\ ~beyond_cutoff) => ret.out = F_base(evaluated, ret.x)
    /\ (called("U") /\ IsNone(evaluated.cutoff)) => ret.out = U_base(evaluated, ret.x)
    /\ (called("U") /\ ~IsNone(evaluated.cutoff) /\ ~beyond_cutoff) =>
        LET u == U_base(evaluated, ret.x)
            uc == U_base(evaluated, Get(evaluated.cutoff))
        IN  IF Ok(u) /\ Ok(uc)
            THEN ret.out = Returned(RSub(u.value, uc.value))
            ELSE ~Ok(ret.out)
    /\ ((called("F") \/ called("U")) /\ evaluated.cutoff = Some(Zero)
            /\ RLess(Zero, ret.x)) => ret.out = Returned(Zero)

\* F was called at the cutoff and returned a force that is not 0
C9_Witness ==
    /\ called("F")
    /\ at_cutoff
    /\ Ok(ret.out)
    /\ ~IsZero(ret.out.value)

\* what a combination rule reads of the atom types
rule_reads(potential) ==
    CASE potential = Coulombic -> {"charge"}
      [] potential = LennardJones -> {"epsilon", "sigma"}
      [] OTHER -> {}

\* C10: when a required parameter has no explicit value and (a) the potential
\* has no combination rule (Harmonic), or (b) the rule fails (fewer than two
\* atom types, or an atom type without a property the rule reads), or (c) the
\* rule's result lacks the parameter (b of Linear), the call raises and no
\* InteractionType is created or registered.
C10_UnresolvableParameterFails ==
    called("define_interaction_type") =>
        LET potential == ret.potential
            missing == potential.parameter_names \ DOMAIN given(ret.parameters)
            no_rule == potential = Harmonic
            rule_fails ==
                /\ potential \in {Coulombic, LennardJones}
                /\ \/ Len(ret.atom_types) < 2
                   \/ \E i \in 1..2, attr \in rule_reads(potential) :
                        ~HasAttr(held_atoms[i], attr)
            rule_lacks == potential = Linear /\ "b" \in missing
        IN  (missing # {} /\ (no_rule \/ rule_fails \/ rule_lacks)) =>
                /\ ~Ok(ret.out)
                /\ interaction_types = << >>
                /\ interaction_type_identifiers = {}
                /\ \A i \in 1..Len(atom_types) :
                        atom_types[i].interaction_types = Some(<< >>)

\* a call was refused because a registered atom type lacks a property that
\* the combination rule reads
C10_Witness ==
    /\ called("define_interaction_type")
    /\ ret.out.cause = "error_calculating_parameters"
    /\ ret.out.inner = "AttributeError"
    /\ Len(ret.atom_types) = 2
    /\ interaction_types = << >>

\* the parameters of the held call that have no explicit value
held_missing == ret.potential.parameter_names \ DOMAIN given(ret.parameters)
\* the held call failed in the resolution of a parameter
parameter_unresolved ==
    /\ called("define_interaction_type")
    /\ ret.out.cause \in {"requires_explicit_parameters", "error_calculating_parameters"}

\* C11 as stated: when construction fails because a required parameter cannot
\* be resolved, the error names the potential and the parameter that is
\* missing, in each of the three causes.
C11_ErrorNamesPotentialAndParameter ==
    parameter_unresolved =>
        /\ ret.out.about = ret.potential.name
        /\ ret.out.detail \in held_missing

\* C11 (amended): the error names the potential in each of the three causes;
\* it names the missing parameter only where the rule's result omits the key;
\* where the potential has no rule it names no parameter, and where the rule
\* fails it ends with the rule's own error: the atom-type attribute that is
\* missing, or an index error that names nothing.
C11_ErrorNamesPotential ==
    parameter_unresolved =>
        /\ ret.out.raised = "ValueError"
        /\ ret.out.about = ret.potential.name
        /\ ret.out.inner = "KeyError" <=> ret.potential = Linear
        /\ ret.out.inner = "KeyError" => ret.out.detail \in held_missing
        /\ ret.out.inner = "NotImplementedError" => ret.out.detail = ""
        /\ ret.out.inner = "AttributeError" => ret.out.detail \in rule_reads(ret.potential)
        /\ ret.out.inner = "IndexError" => ret.out.detail = ""

\* a Coulombic interaction was refused for an atom type without a charge: the
\* error names the potential and the attribute, not the parameter
C11_Witness ==
    /\ parameter_unresolved
    /\ ret.potential = Coulombic
    /\ ret.out.about = "coulombic"
    /\ ret.out.detail = "charge"
    /\ "charge_product" \in held_missing

C13_GetAtomTypeReturnsOwner ==
    called("get_atom_type") =>
        LET owners == {i \in 1..Len(atom_types) :
                          atom_types[i].name = ret.identifier
                              \/ atom_types[i].symbol = ret.identifier}
        IN  IF owners = {}
            THEN ret.out.raised = "ValueError" /\ ret.out.cause = "atom_type_not_found"
            ELSE /\ Ok(ret.out)
                 /\ ret.value # NoneRef
                 /\ owners = {ret.value[2]}
                 /\ ret.value[1] = "ff"

\* the symbol of the second of two registered AtomTypes was looked up
C13_Witness ==
    /\ called("get_atom_type")
    /\ Ok(ret.out)
    /\ Len(atom_types) >= 2
    /\ atom_types[2].symbol = ret.identifier
    /\ ret.value = << "ff", 2 >>

\* how many times the InteractionType of index i occurs in a back-reference list
occurrences(list, i) == Cardinality({k \in 1..Len(list) : list[k] = i})
\* the AtomType object ref is among the atom types of the InteractionType it
participates(ref, it) == \E k \in 1..Len(it.atom_types) : it.atom_types[k] = ref

\* C14: after any sequence of define_* calls, every registered InteractionType
\* I occurs in the back-reference list of every registered AtomType A exactly
\* once if A is among I's atom types (also when A occurs there several times),
\* and not at all otherwise.
C14_BackReferenceExactlyOnce ==
    \A a \in 1..Len(atom_types), i \in 1..Len(interaction_types) :
        occurrences(Get(atom_types[a].interaction_types), i) =
            IF participates(<< "ff", a >>, interaction_types[i]) THEN 1 ELSE 0

\* the positions of an atom_types argument that hold an identifier which is
\* neither a name nor a symbol of a registered AtomType
unknown_positions(arg) ==
    {k \in 1..Len(arg) : arg[k][1] = "id" /\ arg[k][2] \notin names_and_symbols(atom_types)}

\* C15 as stated: define_interaction_type fails with the unknown-identifier
\* error whenever some element of atom_types is an identifier that is not
\* registered, wherever it stands and whatever the other elements are, and
\* nothing is registered.
C15_UnknownIdentifierError ==
    [][(/\ ret = Idle
        /\ ret'.op = "define_interaction_type"
        /\ unknown_positions(ret'.atom_types) # {})
       => /\ ret'.out.raised = "ValueError"
          /\ ret'.out.cause = "atom_type_not_found"
          /\ registry' = registry
          /\ foreign' = foreign]_vars

\* C15 (amended): such a call always fails and registers nothing; the error
\* is the duplicate-name error if the name is that of a registered
\* InteractionType, and otherwise the unknown-identifier error, naming the
\* first such identifier.
C15_UnknownIdentifierFails ==
    [][(/\ ret = Idle
        /\ ret'.op = "define_interaction_type"
        /\ unknown_positions(ret'.atom_types) # {})
       => /\ registry' = registry
          /\ foreign' = foreign
          /\ IF ret'.name \in {interaction_types[i].name : i \in 1..Len(interaction_types)}
             THEN /\ ret'.out.raised = "AssertionError"
                  /\ ret'.out.cause = "interaction_name_already_defined"
             ELSE /\ ret'.out.raised = "ValueError"
                  /\ ret'.out.cause = "atom_type_not_found"
                  /\ ret'.out.about =
                        ret'.atom_types[Min(unknown_positions(ret'.atom_types))][2]]_vars

\* a call was refused for an unknown identifier that stands second, after an
\* AtomType object passed directly
C15_Witness ==
    /\ called("define_interaction_type")
    /\ ret.out.cause = "atom_type_not_found"
    /\ Len(ret.atom_types) = 2
    /\ isinstance_AtomType(ret.atom_types[1])
    /\ unknown_positions(ret.atom_types) = {2}

\* C16: a define_atom_type or define_interaction_type call that failed fails
\* again with the same error when it is repeated at once with the same
\* arguments on the same ForceField, for every shape of the arguments.
C16_FailureRepeats ==
    /\ (called("define_atom_type") /\ ~Ok(ret.out)) =>
            define_atom_type_outcome(ret.name, ret.symbol) = ret.out
    /\ (called("define_interaction_type") /\ ~Ok(ret.out)) =>
            define_interaction_type_outcome(ret.name, ret.potential, ret.decomposition,
                                            ret.atom_types, ret.parameters,
                                            ret.constants, ret.cutoff) = ret.out

\* what thread th's call returns when no other thread runs
sequential(th) ==
    LET it == interaction_types[th.i]
    IN  CASE th.fn = "F_base" -> F_base(it, th.x)
          [] th.fn = "U_base" -> U_base(it, th.x)
          [] th.fn = "F" -> F(it, th.x)
          [] OTHER -> U(it, th.x)

\* C17: F, U, F_base and U_base are pure reads: no line of theirs changes the
\* InteractionType, its AtomTypes or the ForceField's registries, and in any
\* interleaving of callers every call returns what a sequential evaluation
\* with the same x returns.
C17_EvaluationsArePureReads ==
    /\ [](running => \A t \in DOMAIN ret.threads :
                ret.threads[t].pc = "done" => ret.threads[t].out = sequential(ret.threads[t]))
    /\ [][running => (registry' = registry /\ foreign' = foreign)]_vars

\* two threads are inside U of the same InteractionType with a cutoff, one
\* between its two energies, and a third call of U has returned a shifted energy
C17_Witness ==
    /\ running
    /\ \E t, o \in DOMAIN ret.threads :
        /\ t # o
        /\ ret.threads[t].fn = "U" /\ ret.threads[t].pc = "107b"
        /\ ret.threads[o].fn = "U" /\ ret.threads[o].pc = "done"
        /\ ret.threads[o].i = ret.threads[t].i
        /\ ~IsNone(interaction_types[ret.threads[o].i].cutoff)
        /\ Ok(ret.threads[o].out) /\ ~IsZero(ret.threads[o].out.value)

\* the k-th atom type of a registered InteractionType
atom_of(it, k) == Deref(it.atom_types[k])
Coulombics == {i \in 1..Len(interaction_types) : interaction_types[i].potential = Coulombic}
LennardJoneses ==
    {i \in 1..Len(interaction_types) : interaction_types[i].potential = LennardJones}

\* C18: a Coulombic InteractionType constructed without an explicit
\* charge_product has charge_product = charge(atom_types[0]) *
\* charge(atom_types[1]); two such interactions whose first two atom types
\* are the same in either order have the same charge_product, whatever atom
\* types follow.
C18_CoulombicChargeProduct ==
    /\ \A i \in Coulombics :
        LET it == interaction_types[i]
        IN  it.parameters.charge_product =
                RMul(atom_of(it, 1).props.charge, atom_of(it, 2).props.charge)
    /\ \A i, j \in Coulombics :
        LET a == interaction_types[i].atom_types
            b == interaction_types[j].atom_types
        IN  ({a[1], a[2]} = {b[1], b[2]} /\ (a[1] = a[2] <=> b[1] = b[2])) =>
                interaction_types[i].parameters.charge_product
                    = interaction_types[j].parameters.charge_product

\* two Coulombic interactions are registered between atom types of different
\* charge, one of two atoms, the other of three with the first two exchanged
C18_Witness ==
    /\ Coulombics = {1, 2}
    /\ LET a == interaction_types[1].atom_types
           b == interaction_types[2].atom_types
       IN  /\ Len(a) = 2 /\ Len(b) = 3
           /\ a[1] # a[2]
           /\ b[1] = a[2] /\ b[2] = a[1]
           /\ Deref(a[1]).props.charge # Deref(a[2]).props.charge
           /\ Deref(b[3]).props.charge # Int2Rat(1)

\* sigma of a LennardJones interaction is the mean of its first two atom
\* types' sigmas
sigma_is_mean(it) ==
    it.parameters.sigma =
        RDiv(RAdd(atom_of(it, 1).props.sigma, atom_of(it, 2).props.sigma), Int2Rat(2))
\* e is the non-negative square root of p >= 0
is_sqrt(e, p) == Len(e) = 2 /\ ~RLess(e, Zero) /\ RMul(e, e) = p

\* C19 as stated: a LennardJones InteractionType constructed without explicit
\* parameters has sigma = (sigma0 + sigma1) / 2 and epsilon = sqrt(epsilon0 *
\* epsilon1) of its first two atom types (sigma 0.3 and 0.4 give 0.35), and two
\* identical atom types give back that type's own sigma and epsilon.
C19_LorentzBerthelot ==
    \A i \in LennardJoneses :
        LET it == interaction_types[i]
            product == RMul(atom_of(it, 1).props.epsilon, atom_of(it, 2).props.epsilon)
        IN  /\ sigma_is_mean(it)
            /\ ~RLess(product, Zero) => is_sqrt(it.parameters.epsilon, product)
            /\ it.atom_types[1] = it.atom_types[2] =>
                /\ it.parameters.sigma = atom_of(it, 1).props.sigma
                /\ it.parameters.epsilon = atom_of(it, 1).props.epsilon

\* C19 (amended): sigma = (sigma0 + sigma1) / 2; epsilon is the non-negative
\* square root of epsilon0 * epsilon1 where that product is not negative, and
\* a complex number (the root of its magnitude times the imaginary unit) where
\* it is negative; two identical atom types give back the type's own sigma
\* and the magnitude of its epsilon, which is its epsilon only if that is not
\* negative.
C19_LorentzBerthelotMagnitude ==
    \A i \in LennardJoneses :
        LET it == interaction_types[i]
            e == it.parameters.epsilon
            product == RMul(atom_of(it, 1).props.epsilon, atom_of(it, 2).props.epsilon)
            own == atom_of(it, 1).props.epsilon
        IN  /\ sigma_is_mean(it)
            /\ ~RLess(product, Zero) => is_sqrt(e, product)
            /\ RLess(product, Zero) =>
                /\ Len(e) = 3
                /\ e[3] = "j"
                /\ is_sqrt(<< e[1], e[2] >>, RNeg(product))
            /\ it.atom_types[1] = it.atom_types[2] =>
                /\ it.parameters.sigma = atom_of(it, 1).props.sigma
                /\ e = IF RLess(own, Zero) THEN RNeg(own) ELSE own

\* a LennardJones interaction is registered between atom types of sigma 0.3
\* and 0.4 (mean 0.35) and another between two atoms of one type whose epsilon
\* is negative
C19_Witness ==
    /\ LennardJoneses = {1, 2}
    /\ LET mixed == interaction_types[1]
           same == interaction_types[2]
       IN  /\ {atom_of(mixed, 1).props.sigma, atom_of(mixed, 2).props.sigma}
                = {Rat(3, 10), Rat(4, 10)}
           /\ mixed.parameters.sigma = Rat(35, 100)
           /\ same.atom_types[1] = same.atom_types[2]
           /\ RLess(atom_of(same, 1).props.epsilon, Zero)

\* F or U of a Harmonic InteractionType was called at its eq
harmonic_at_eq(fn) ==
    /\ called(fn)
    /\ evaluated.potential = Harmonic
    /\ ret.x = evaluated.parameters.eq

\* C20 as stated: for every Harmonic InteractionType, F(eq) = 0 and U(eq) = 0,
\* whether or not a cutoff is set.
C20_HarmonicZeroAtEq ==
    (harmonic_at_eq("F") \/ harmonic_at_eq("U")) => ret.out = Returned(Zero)

\* C20 (amended): F(eq) = 0 whether or not a cutoff is set; U(eq) = 0 if no
\* cutoff is set or the cutoff is not beyond eq; with a cutoff c > eq,
\* U(eq) = -U_base(c) = -k/2 * (c - eq)^2.
C20_HarmonicAtEq ==
    /\ harmonic_at_eq("F") => ret.out = Returned(Zero)
    /\ harmonic_at_eq("U") =>
        LET eq == evaluated.parameters.eq
            k == evaluated.parameters.k
            c == Get(evaluated.cutoff)
        IN  IF IsNone(evaluated.cutoff) \/ ~RLess(eq, c)
            THEN ret.out = Returned(Zero)
            ELSE ret.out = Returned(RNeg(RMul(RMul(Rat(1, 2), k), RPow(RSub(c, eq), 2))))

\* U of a Harmonic InteractionType whose cutoff is beyond eq was called at eq
\* and returned an energy below 0
C20_Witness ==
    /\ harmonic_at_eq("U")
    /\ ~IsNone(evaluated.cutoff)
    /\ RLess(evaluated.parameters.eq, Get(evaluated.cutoff))
    /\ Ok(ret.out)
    /\ RLess(ret.out.value, Zero)

\* the sign of a number: 1, 0 or -1
Sign(r) == IF r[1] > 0 THEN 1 ELSE IF r[1] < 0 THEN -1 ELSE 0
\* fn of a Coulombic InteractionType whose charge_product is not 0 was
\* called with x > 0
coulombic_energy(fn) ==
    /\ called(fn)
    /\ evaluated.potential = Coulombic
    /\ ~IsZero(evaluated.parameters.charge_product)
    /\ RLess(Zero, ret.x)

\* C21 as stated: for every Coulombic InteractionType with charge_product not
\* 0 and every x > 0, the sign of the energy is the sign of charge_product,
\* for the resolved constants of the interaction, defaulted or overridden.
C21_CoulombSignFollowsCharges ==
    coulombic_energy("U_base") =>
        /\ Ok(ret.out)
        /\ Sign(ret.out.value) = Sign(evaluated.parameters.charge_product)

\* C21 (amended): for x > 0 and epsilon_r not 0, the sign of U_base(x), and of
\* U(x) where no cutoff is set, is sign(charge_product) * sign(ecf) *
\* sign(epsilon_r): that of charge_product for the defaulted constants and for
\* every override with ecf > 0 and epsilon_r > 0, the opposite one where
\* exactly one of the two is negative, and 0 where ecf is 0.
C21_CoulombSignFollowsChargesAndConstants ==
    (coulombic_energy("U_base") \/ (coulombic_energy("U") /\ IsNone(evaluated.cutoff))) =>
        /\ Ok(ret.out)
        /\ Sign(ret.out.value) =
                Sign(evaluated.parameters.charge_product)
                    * Sign(evaluated.constants.ecf) * Sign(evaluated.constants.epsilon_r)
        /\ (RLess(Zero, evaluated.constants.ecf) /\ RLess(Zero, evaluated.constants.epsilon_r))
                => Sign(ret.out.value) = Sign(evaluated.parameters.charge_product)

\* U_base of a Coulombic InteractionType between like charges, with the
\* dielectric constant overridden by a negative value, returned an energy below 0
C21_Witness ==
    /\ coulombic_energy("U_base")
    /\ RLess(Zero, evaluated.parameters.charge_product)
    /\ RLess(evaluated.constants.epsilon_r, Zero)
    /\ Ok(ret.out)
    /\ RLess(ret.out.value, Zero)

\* C22: every InteractionType registered in a ForceField has at least two
\* participating atom types: define_interaction_type never registers an
\* interaction whose atom_types has fewer than two elements.
C22_AtLeastTwoAtomTypes ==
    \A i \in 1..Len(interaction_types) : Len(interaction_types[i].atom_types) >= 2

\* C23: for every InteractionType registered in a ForceField, its
\* decomposition tag is one of 'pairwise', 'bond', 'angle', 'dihedral'.
C23_DecompositionTagValid ==
    \A i \in 1..Len(interaction_types) :
        interaction_types[i].decomposition \in {"pairwise", "bond", "angle", "dihedral"}

\* C24: each InteractionType owns its resolved maps: its parameters and
\* constants dicts are no dict that the caller passed and no dict of another
\* InteractionType; construction does not modify the caller's dicts; and
\* neither a change of the caller's dict after construction nor the
\* construction of another interaction from the same dict or rule changes the
\* resolved values of an existing interaction.
C24_InteractionOwnsItsDicts ==
    /\ [](\A d \in DOMAIN dicts : dicts[d].bound = {})
    /\ [][(ret = Idle /\ ret'.op = "define_interaction_type") =>
            /\ \A d \in DOMAIN dicts : dicts'[d].value = dicts[d].value
            /\ \A i \in DOMAIN interaction_types :
                /\ interaction_types'[i].parameters = interaction_types[i].parameters
                /\ interaction_types'[i].constants = interaction_types[i].constants]_vars
    /\ [][(ret = Idle /\ ret'.op = "dict.__setitem__") =>
            interaction_types' = interaction_types]_vars

\* two Harmonic InteractionTypes were constructed from the one dict that the
\* caller holds, a Coulombic one took its epsilon_r from it, or both; then the
\* caller set k in that dict to 7, and the interactions still hold k = 2
C24_Witness ==
    /\ called("dict.__setitem__")
    /\ Len(dicts) = 1
    /\ ret.key = "k"
    /\ dicts[1].value.k = Int2Rat(7)
    /\ Len(interaction_types) = 2
    /\ \A i \in 1..2 :
        /\ interaction_types[i].potential = Harmonic
        /\ interaction_types[i].parameters.k = Int2Rat(2)

\* C25: each example catalog builds without error as a sequence of
\* define_atom_type calls followed by define_interaction_type calls: every
\* atom-type identifier used is defined before use, no identifier and no
\* interaction name repeats, every parameter not given explicitly is derivable
\* from the properties of the participating atom types, and the result has
\* at least one atom type and at least one interaction type.
C25_CatalogsBuild ==
    /\ []((called("define_atom_type") \/ called("define_interaction_type")) => Ok(ret.out))
    /\ [](called("define_interaction_type") =>
            /\ \A k \in 1..Len(ret.atom_types) :
                /\ ret.atom_types[k][1] = "id"
                /\ ret.atom_types[k][2] \in names_and_symbols(atom_types)
            /\ held_missing # {} =>
                LET rule == calculate_parameters(ret.potential, held_atoms)
                IN  rule.raised = NoError /\ held_missing \subseteq DOMAIN rule.value)
    /\ [][(ret = Idle /\ ret'.op = "define_atom_type") =>
            /\ interaction_types = << >>
            /\ ret'.name # ret'.symbol
            /\ {ret'.name, ret'.symbol} \cap names_and_symbols(atom_types) = {}]_vars
    /\ [][(ret = Idle /\ ret'.op = "define_interaction_type") =>
            \A i \in 1..Len(interaction_types) : interaction_types[i].name # ret'.name]_vars
    /\ [](\A c \in Catalogs :
            /\ building(c) => Len(interaction_types) <= Len(c.interaction_types)
            /\ built(c) => (Len(atom_types) >= 1 /\ Len(interaction_types) >= 1))

\* SPC_FW is built: two atom types and six interaction types, the last the
\* O-O Dispersion whose sigma and epsilon the rule derived from the oxygen
C25_Witness ==
    /\ built(SPC_FW)
    /\ Len(atom_types) = 2
    /\ Len(interaction_types) = 6
    /\ last_interaction.name = "O-O Dispersion"
    /\ last_interaction.parameters.sigma = atom_types[1].props.sigma
    /\ Get(atom_types[2].interaction_types) = << 1, 2, 3, 4 >>

\* the class with these bases derives from Potential
RECURSIVE derives(_)
derives(bases) ==
    \E k \in 1..Len(bases) :
        \/ bases[k] = PotentialClass
        \/ bases[k][1] = "class" /\ derives(classes[bases[k][2]].bases)

\* C26: creating a class that derives from Potential and whose own namespace
\* lacks any of name, constant_names, parameter_names, F, U fails with
\* TypeError at class-definition time, so that no Potential subclass missing
\* one of the five can exist; a class that defines all five is created.
C26_SubclassNeedsFiveMembers ==
    (called("class") /\ derives(ret.bases)) =>
        IF Required \subseteq ret.namespace
        THEN /\ Ok(ret.out)
             /\ classes # << >>
             /\ classes[Len(classes)].namespace = ret.namespace
        ELSE ret.out.raised = "TypeError"

\* C27: the combination rule is consulted only for the parameters without an
\* explicit value.  With every required parameter explicit the parameters
\* resolve, also where the potential has no rule (Harmonic) or the rule would
\* fail on these atom types, and are the explicit values; with some of them
\* explicit the call succeeds only if the rule returns a value for each of
\* the others, which are taken from the rule while the explicit ones are kept.
C27_RuleOnlyForMissingParameters ==
    called("define_interaction_type") =>
        LET potential == ret.potential
            explicit == given(ret.parameters)
            missing == potential.parameter_names \ DOMAIN explicit
            rule == calculate_parameters(potential, held_atoms)
        IN  /\ missing = {} =>
                ret.out.cause \notin {"requires_explicit_parameters",
                                      "error_calculating_parameters"}
            /\ Ok(ret.out) =>
                /\ missing # {} => rule.raised = NoError /\ missing \subseteq DOMAIN rule.value
                /\ \A p \in potential.parameter_names :
                        last_interaction.parameters[p] =
                            IF p \in missing THEN rule.value[p] ELSE explicit[p]

\* a LennardJones interaction was registered with an explicit sigma, which
\* differs from the one of the rule, and no explicit epsilon, while the rule
\* yields both
C27_Witness ==
    /\ called("define_interaction_type")
    /\ Ok(ret.out)
    /\ ret.potential = LennardJones
    /\ DOMAIN given(ret.parameters) \cap LennardJones.parameter_names = {"sigma"}
    /\ LET rule == calculate_parameters(LennardJones, held_atoms)
       IN  /\ rule.value.sigma # given(ret.parameters).sigma
           /\ last_interaction.parameters.sigma = given(ret.parameters).sigma
           /\ last_interaction.parameters.epsilon = rule.value.epsilon

\* C28: in every reachable state, also after a call that failed,
\* atom_type_identifiers is the set of the names and symbols of the AtomTypes
\* in atom_types and has 2 * len(atom_types) elements, and
\* interaction_type_identifiers is the set of the names of the
\* InteractionTypes in interaction_types and has len(interaction_types)
\* elements.
C28_RegistryConsistent ==
    /\ atom_type_identifiers = names_and_symbols(atom_types)
    /\ Cardinality(atom_type_identifiers) = 2 * Len(atom_types)
    /\ interaction_type_identifiers =
            {interaction_types[i].name : i \in 1..Len(interaction_types)}
    /\ Cardinality(interaction_type_identifiers) = Len(interaction_types)

\* an AtomType and an InteractionType are registered, and the last call of
\* define_interaction_type raised after it had registered its InteractionType
C28_Witness ==
    /\ called("define_interaction_type")
    /\ ret.out.raised = "AttributeError"
    /\ Len(atom_types) >= 1
    /\ Len(interaction_types) >= 1
    /\ ret.name \in interaction_type_identifiers
    /\ last_interaction.name = ret.name

\* C29: in every reachable state, every atom type that a registered
\* InteractionType refers to is an AtomType of the ForceField's atom_types
\* list, whether the interaction was defined with identifiers or with AtomType
\* objects.
C29_InteractionsReferToRegisteredAtomTypes ==
    \A i \in 1..Len(interaction_types) :
        \A k \in 1..Len(interaction_types[i].atom_types) :
            LET ref == interaction_types[i].atom_types[k]
            IN  ref[1] = "ff" /\ ref[2] \in 1..Len(atom_types)

====
